---- MODULE Spec2Model ----
(***************************************************************************)
(* Model of the authz-rebac permission engine: the relation store, the     *)
(* recursive path traversal, the precedence reducer, the permission        *)
(* evaluator and the four HTTP handlers that drive them.                   *)
(*                                                                         *)
(* Strings that the program splits or concatenates (object types, object   *)
(* ids and the "type:id" wire form) are sequences of symbols; the symbol   *)
(* ":" is the colon character and every other symbol stands for a          *)
(* colon-free run of characters.  The empty string is << >>.  Relation and *)
(* permission names are never split and are plain strings.                 *)
(***************************************************************************)
EXTENDS Integers, Sequences, FiniteSets, TLC

VARIABLES
    store,          \* committed rows of the relationship table
    pc,             \* position of the ManageRelationships request in flight
    body,           \* decoded body of the ManageRelationships request in flight
    storeAtStart,   \* the store when the last ManageRelationships request began
    mreq,           \* how many entries its body had, and how many were not valid
    calls,          \* store operations that request has invoked so far
    mresp,          \* its response (state "pending" while it is in flight)
    resp,           \* outcome of the read request that ran last
    evalIn,         \* arguments of the last direct call of a function
    evalOut         \* its result

vars == <<store, pc, body, storeAtStart, mreq, calls, mresp, resp, evalIn, evalOut>>

(***************************************************************************)
(* Bounds                                                                  *)
(***************************************************************************)
MaxRels == 2        \* entries of one ManageRelationships body (delete + create)
MaxPaths == 2       \* paths handed to the evaluator directly
MaxAnyOf == 2       \* relations of an any_of list handed to the evaluator directly
MaxRules == 2       \* precedence rules handed to the reducer directly
MaxReduced == 3     \* paths handed to the reducer directly

(***************************************************************************)
(* Generic helpers                                                         *)
(***************************************************************************)
Range(s) == {s[i] : i \in 1..Len(s)}

SeqsUpTo(S, n) == UNION {[1..k -> S] : k \in 0..n}

Contains(s, x) == \E i \in 1..Len(s) : s[i] = x

\* every arrangement of the finite set S as a sequence without repetition
Orderings(S) ==
    {f \in [1..Cardinality(S) -> S] : \A i, j \in 1..Cardinality(S) : f[i] = f[j] => i = j}

(***************************************************************************)
(* Strings and the "type:id" wire form                                     *)
(***************************************************************************)
Colon == ":"
EmptyStr == << >>

\* index of the first colon of s, 0 when there is none
FirstColon(s) ==
    IF \E i \in 1..Len(s) : s[i] = Colon
    THEN CHOOSE i \in 1..Len(s) : s[i] = Colon /\ \A j \in 1..(i-1) : s[j] # Colon
    ELSE 0

\* strings.SplitN(s, ":", 2)
SplitN2(s) ==
    LET i == FirstColon(s)
    IN  IF i = 0 THEN <<s>> ELSE <<SubSeq(s, 1, i - 1), SubSeq(s, i + 1, Len(s))>>

Object(t, id) == [Type |-> t, ID |-> id]

\* Object.MarshalJSON: o.Type + ":" + o.ID
MarshalObject(o) == o.Type \o <<Colon>> \o o.ID

\* Object.UnmarshalJSON: a sequence of 0 (error) or 1 object
UnmarshalObject(s) ==
    LET parts == SplitN2(s)
    IN  IF Len(parts) # 2 THEN << >> ELSE <<Object(parts[1], parts[2])>>

Relationship(res, rel, sub) == [Resource |-> res, Subject |-> sub, Relation |-> rel]

\* json decoding of one Relationship whose objects are in wire form:
\* a sequence of 0 (error) or 1 relationship
UnmarshalRelationship(w) ==
    LET resource == UnmarshalObject(w.resource)
        subject == UnmarshalObject(w.subject)
    IN  IF resource = << >> \/ subject = << >>
        THEN << >>
        ELSE <<Relationship(resource[1], w.relation, subject[1])>>

\* json encoding of one Relationship
MarshalRelationship(r) ==
    [resource |-> MarshalObject(r.Resource), subject |-> MarshalObject(r.Subject),
     relation |-> r.Relation]

(***************************************************************************)
(* Schema (Metadata)                                                       *)
(***************************************************************************)
document == <<"document">>
folder == <<"folder">>
user == <<"user">>
group == <<"group">>

NoObjectDefinition == [Relations |-> << >>, Permissions |-> << >>, PrecedenceRules |-> << >>]

\* the loaded schema document: the schema of the end-to-end scenarios
Meta ==
    [SchemaVersion |-> "1",
     Objects |->
        (document :>
            [Relations |->
                [owner  |-> [SubjectTypes |-> <<user>>],
                 editor |-> [SubjectTypes |-> <<user>>],
                 banned |-> [SubjectTypes |-> <<user>>],
                 parent |-> [SubjectTypes |-> <<folder>>]],
             Permissions |->
                [edit |-> [AnyOf |-> <<"owner", "editor">>, Except |-> <<"banned">>]],
             PrecedenceRules |->
                <<[Rule |-> "path_with", Relation |-> "owner"],
                  [Rule |-> "path_without", Relation |-> "member"],
                  [Rule |-> "path_with_fewer", Relation |-> "parent"]>>])
        @@
        (folder :>
            [Relations |->
                [owner  |-> [SubjectTypes |-> <<user>>],
                 member |-> [SubjectTypes |-> <<user>>],
                 parent |-> [SubjectTypes |-> <<folder>>]],
             Permissions |->
                [view |-> [AnyOf |-> <<"member", "owner">>, Except |-> << >>]],
             PrecedenceRules |-> << >>])
        @@
        (user :> NoObjectDefinition)]

\* m.Objects[t]: the zero ObjectDefinition for a type that is not declared
ObjectDef(m, t) == IF t \in DOMAIN m.Objects THEN m.Objects[t] ELSE NoObjectDefinition

\* Metadata.IsValidObject: "" when valid, else the error
IsValidObject(m, obj) ==
    IF obj.Type = EmptyStr THEN "type is required"
    ELSE IF obj.ID = EmptyStr THEN "id is required"
    ELSE IF obj.Type \notin DOMAIN m.Objects THEN "type is invalid"
    ELSE ""

\* Metadata.IsValidObjectType
IsValidObjectType(m, obj) ==
    IF obj.Type = EmptyStr THEN "type is required"
    ELSE IF obj.Type \notin DOMAIN m.Objects THEN "type is invalid"
    ELSE ""

\* IsValidRelation without the test of the subject's type against the
\* relation's subject types
IsValidRelation_AnySubjectType(m, rel) ==
    IF IsValidObject(m, rel.Resource) # "" THEN "resource is invalid"
    ELSE IF IsValidObject(m, rel.Subject) # "" THEN "subject is invalid"
    ELSE IF rel.Relation = "" THEN "relation is required"
    ELSE IF rel.Relation \notin DOMAIN m.Objects[rel.Resource.Type].Relations
        THEN "relation is invalid"
    ELSE ""

\* Metadata.IsValidRelation
IsValidRelation(m, rel) ==
    IF IsValidObject(m, rel.Resource) # "" THEN "resource is invalid"
    ELSE IF IsValidObject(m, rel.Subject) # "" THEN "subject is invalid"
    ELSE IF rel.Relation = "" THEN "relation is required"
    ELSE LET relations == m.Objects[rel.Resource.Type].Relations
         IN  IF rel.Relation \notin DOMAIN relations THEN "relation is invalid"
             ELSE IF ~Contains(relations[rel.Relation].SubjectTypes, rel.Subject.Type)
                 THEN "relation is invalid"
             ELSE ""

\* Metadata.IsValidPermission
IsValidPermission(m, obj, permission) ==
    IF IsValidObject(m, obj) # "" THEN IsValidObject(m, obj)
    ELSE IF obj.Type \notin DOMAIN m.Objects THEN "unknown object type"
    ELSE IF permission \notin DOMAIN m.Objects[obj.Type].Permissions
        THEN "permission is invalid for resource type"
    ELSE ""

(***************************************************************************)
(* Relation store (pgRepository) and transactions                          *)
(***************************************************************************)
\* InsertBulk replacing the stored rows that join the same resource and subject
InsertBulk_ReplaceEnds(db, relationships) ==
    IF Len(relationships) = 0 THEN db
    ELSE {r \in db : \A i \in 1..Len(relationships) :
                        ~(r.Resource = relationships[i].Resource
                            /\ r.Subject = relationships[i].Subject)}
         \cup Range(relationships)

\* InsertBulk's statement: INSERT ... ON CONFLICT DO NOTHING
InsertBulk(db, relationships) ==
    IF Len(relationships) = 0 THEN db ELSE db \cup Range(relationships)

\* DeleteBulk matching the rows on resource and subject, not on the relation
DeleteBulk_ByEnds(db, relationships) ==
    IF Len(relationships) = 0 THEN db
    ELSE {r \in db : \A i \in 1..Len(relationships) :
                        ~(r.Resource = relationships[i].Resource
                            /\ r.Subject = relationships[i].Subject)}

\* DeleteBulk's statement: DELETE ... WHERE (5-tuple) IN (...)
DeleteBulk(db, relationships) ==
    IF Len(relationships) = 0 THEN db ELSE db \ Range(relationships)

\* the statement of a write operation applied to the rows its executor sees
ExecWrite(op, db, relationships) ==
    IF op = "InsertBulk" THEN InsertBulk(db, relationships) ELSE DeleteBulk(db, relationships)

\* the executor calls a write operation makes: none for an empty list
WriteCalls(op, relationships) == IF Len(relationships) = 0 THEN << >> ELSE <<op>>

NoTx == << >>

\* The outcome of a user function fn(ctx) run on the rows its executor sees:
\* the rows afterwards, the error it returns ("" for nil), whether it panics,
\* and the store operations it invoked.
FnResult(rows, err, panic, ops) == [rows |-> rows, err |-> err, panic |-> panic, calls |-> ops]

\* The user function of CreateRelationships / DeleteRelationships applied to
\* the rows db.GetStatement(ctx) sees: one write operation of the repository.
\* fault "exec" makes its statement fail, fault "panic" makes it panic after
\* its statement.
WriteFn(op, relationships, fault, rows) ==
    IF fault = "exec" /\ Len(relationships) > 0
    THEN FnResult(rows, "exec failed", FALSE, WriteCalls(op, relationships))
    ELSE FnResult(ExecWrite(op, rows, relationships), "", fault = "panic",
                  WriteCalls(op, relationships))

\* the result of WithTransaction: the committed rows, the transaction of the
\* context afterwards, the error returned, whether the call panicked, and the
\* store operations invoked
TxResult(committed, tx, err, panic, ops) ==
    [committed |-> committed, tx |-> tx, err |-> err, panic |-> panic, calls |-> ops]

\* WithTransactionFn whose deferred function commits unless err is set, with
\* no recover: a panic of the user function commits
WithTransactionFn_CommitOnPanic(ctxTx, committed, fn, fault) ==
    IF ctxTx # NoTx
    THEN TxResult(committed, <<fn[ctxTx[1]].rows>>, fn[ctxTx[1]].err, fn[ctxTx[1]].panic,
                  fn[ctxTx[1]].calls)
    ELSE IF fault = "begin"
    THEN TxResult(committed, NoTx, "begin failed", FALSE, <<"BeginTx">>)
    ELSE LET r == fn[committed]
         IN  IF r.err # "" /\ ~r.panic
             THEN TxResult(committed, NoTx, r.err, FALSE, <<"BeginTx">> \o r.calls \o <<"Rollback">>)
             ELSE IF fault = "commit"
             THEN TxResult(committed, NoTx, IF r.panic THEN "" ELSE "commit failed", r.panic,
                           <<"BeginTx">> \o r.calls \o <<"Commit", "Rollback">>)
             ELSE TxResult(r.rows, NoTx, "", r.panic, <<"BeginTx">> \o r.calls \o <<"Commit">>)

\* WithTransactionFn opening a transaction of its own whatever the context holds
WithTransactionFn_AlwaysBegin(ctxTx, committed, fn, fault) ==
    IF fault = "begin"
    THEN TxResult(committed, ctxTx, "begin failed", FALSE, <<"BeginTx">>)
    ELSE LET r == fn[committed]
         IN  IF r.panic
             THEN TxResult(committed, ctxTx, "", TRUE, <<"BeginTx">> \o r.calls \o <<"Rollback">>)
             ELSE IF r.err # ""
             THEN TxResult(committed, ctxTx, r.err, FALSE, <<"BeginTx">> \o r.calls \o <<"Rollback">>)
             ELSE IF fault = "commit"
             THEN TxResult(committed, ctxTx, "commit failed", FALSE,
                           <<"BeginTx">> \o r.calls \o <<"Commit", "Rollback">>)
             ELSE TxResult(r.rows, ctxTx, "", FALSE, <<"BeginTx">> \o r.calls \o <<"Commit">>)

\* db.WithTransaction(ctx, fn).  ctxTx is the transaction of the context (NoTx,
\* or <<the rows it sees>>), fn maps the rows the executor of fn's context sees
\* to fn's outcome, fault is the step of the transaction that fails ("begin",
\* "commit") if any.
WithTransactionFn(ctxTx, committed, fn, fault) ==
    IF ctxTx # NoTx
    THEN \* reuse the transaction of the context: no begin, no commit, no rollback
         TxResult(committed, <<fn[ctxTx[1]].rows>>, fn[ctxTx[1]].err, fn[ctxTx[1]].panic,
                  fn[ctxTx[1]].calls)
    ELSE IF fault = "begin"
    THEN TxResult(committed, NoTx, "begin failed", FALSE, <<"BeginTx">>)
    ELSE LET r == fn[committed]
         IN  IF r.panic
             THEN \* recover, Rollback, panic(p)
                  TxResult(committed, NoTx, "", TRUE, <<"BeginTx">> \o r.calls \o <<"Rollback">>)
             ELSE IF r.err # ""
             THEN TxResult(committed, NoTx, r.err, FALSE, <<"BeginTx">> \o r.calls \o <<"Rollback">>)
             ELSE IF fault = "commit"
             THEN TxResult(committed, NoTx, "commit failed", FALSE,
                           <<"BeginTx">> \o r.calls \o <<"Commit", "Rollback">>)
             ELSE TxResult(r.rows, NoTx, "", FALSE, <<"BeginTx">> \o r.calls \o <<"Commit">>)

\* db.WithTransaction(ctx, fn) where fn is one write operation of the
\* repository; fault is the step that fails ("none", "begin", "exec",
\* "commit") or "panic".
WithTransaction(ctxTx, committed, op, relationships, fault) ==
    LET rows == IF ctxTx # NoTx THEN ctxTx[1] ELSE committed
    IN  WithTransactionFn(ctxTx, committed,
                           (rows :> WriteFn(op, relationships, fault, rows)), fault)

\* serviceImpl.CreateRelationships
CreateRelationships(ctxTx, committed, relationships, fault) ==
    WithTransaction(ctxTx, committed, "InsertBulk", relationships, fault)

\* serviceImpl.DeleteRelationships
DeleteRelationships(ctxTx, committed, relationships, fault) ==
    WithTransaction(ctxTx, committed, "DeleteBulk", relationships, fault)

(***************************************************************************)
(* Traversal (pgRepository.ListPaths)                                      *)
(***************************************************************************)
\* a Go slice of strings: nil, or a (possibly empty) sequence
NilSlice == [isNil |-> TRUE, elems |-> << >>]
Slice(s) == [isNil |-> FALSE, elems |-> s]

NoObject == << >>

TraversalRequest(startOn, forward, stopOnTypes, stopOn) ==
    [StartOn |-> startOn, Forward |-> forward, StopOnTypes |-> stopOnTypes, StopOn |-> stopOn]

\* the column pair %[1]s (the end a step leaves) and %[2]s (the end it reaches)
Near(r, forward) == IF forward THEN r.Resource ELSE r.Subject
Far(r, forward) == IF forward THEN r.Subject ELSE r.Resource

\* args: $3 is pq.Array(StopOnTypes), NULL for a nil slice; $4, $5 are "" without StopOn
StopTypesNull(req) == req.StopOnTypes.isNil
StopType(req) == IF req.StopOn = NoObject THEN EmptyStr ELSE req.StopOn[1].Type
StopID(req) == IF req.StopOn = NoObject THEN EmptyStr ELSE req.StopOn[1].ID

\* json_build_object('resource', type || ':' || id, 'subject', ..., 'relation', ...)
EdgeJSON(r) == MarshalRelationship(r)

\* the non-recursive term of rel_tree: the rows whose near end is StartOn
SeedRows(db, req) ==
    {[start |-> Near(r, req.Forward), next |-> Far(r, req.Forward), path |-> <<EdgeJSON(r)>>] :
        r \in {x \in db : Near(x, req.Forward) = req.StartOn}}

\* StepRows with the forward columns whatever the direction of the request
StepRows_AlwaysForward(db, req, level) ==
    {[start |-> tr[1].start, next |-> Far(tr[2], TRUE),
      path |-> Append(tr[1].path, EdgeJSON(tr[2]))] :
        tr \in {x \in level \X db :
                    /\ Near(x[2], TRUE) = x[1].next
                    /\ (StopTypesNull(req)
                        \/ ~Contains(req.StopOnTypes.elems, x[1].next.Type))}}

\* StepRows expanding every node, whatever its type
StepRows_NoStop(db, req, level) ==
    {[start |-> tr[1].start, next |-> Far(tr[2], req.Forward),
      path |-> Append(tr[1].path, EdgeJSON(tr[2]))] :
        tr \in {x \in level \X db : Near(x[2], req.Forward) = x[1].next}}

\* StepRows testing the type of the node a step reaches, not of the node it
\* leaves
StepRows_StopOnFar(db, req, level) ==
    {[start |-> tr[1].start, next |-> Far(tr[2], req.Forward),
      path |-> Append(tr[1].path, EdgeJSON(tr[2]))] :
        tr \in {x \in level \X db :
                    /\ Near(x[2], req.Forward) = x[1].next
                    /\ (StopTypesNull(req)
                        \/ ~Contains(req.StopOnTypes.elems, Far(x[2], req.Forward).Type))}}

\* the recursive term of rel_tree applied to the rows of the last iteration
StepRows(db, req, level) ==
    {[start |-> tr[1].start, next |-> Far(tr[2], req.Forward),
      path |-> Append(tr[1].path, EdgeJSON(tr[2]))] :
        tr \in {x \in level \X db :
                    /\ Near(x[2], req.Forward) = x[1].next
                    /\ (StopTypesNull(req)
                        \/ ~Contains(req.StopOnTypes.elems, x[1].next.Type))}}

\* the rows rel_tree gains in its k-th iteration: the walks of k edges
RECURSIVE RelTreeLevel(_, _, _)
RelTreeLevel(db, req, k) ==
    IF k <= 1 THEN SeedRows(db, req) ELSE StepRows(db, req, RelTreeLevel(db, req, k - 1))

Nodes(db) == {r.Resource : r \in db} \cup {r.Subject : r \in db}

\* The recursion never ends when a walk of more edges than there are nodes
\* exists: such a walk expands a node twice, so it walks a cycle it can walk
\* again.
Diverges(db, req) == db # {} /\ RelTreeLevel(db, req, Cardinality(Nodes(db)) + 1) # {}

\* the rows of rel_tree when the recursion ends: level by level until a
\* level is empty
RECURSIVE RelTreeFrom(_, _, _)
RelTreeFrom(db, req, level) ==
    IF level = {} THEN {} ELSE level \cup RelTreeFrom(db, req, StepRows(db, req, level))

RelTree(db, req) == RelTreeFrom(db, req, SeedRows(db, req))

\* the WHERE clause of the final SELECT
Selected(row, req) ==
    /\ \/ (StopType(req) = EmptyStr /\ StopID(req) = EmptyStr)
       \/ (row.next.Type = StopType(req) /\ row.next.ID = StopID(req))
    /\ \/ StopTypesNull(req)
       \/ Contains(req.StopOnTypes.elems, row.next.Type)

\* json.Unmarshal of one aggregated path
DecodePath(p) == [i \in 1..Len(p) |-> UnmarshalRelationship(p[i])[1]]

\* TraversalResponseItem naming the start as resource whatever the direction
TraversalResponseItem_NoSwap(req, start, next, paths) ==
    [Resource |-> start, Subject |-> next, Paths |-> paths]

\* the response item built from one group of the final SELECT, its paths in
\* one of the orders json_agg may produce
TraversalResponseItem(req, start, next, paths) ==
    [Resource |-> IF req.Forward THEN start ELSE next,
     Subject |-> IF req.Forward THEN next ELSE start,
     Paths |-> paths]

\* the items one group (the selected rows that end at next) may become
GroupItems(req, rows, next) ==
    {TraversalResponseItem(req, req.StartOn, next, [i \in 1..Len(ps) |-> DecodePath(ps[i])]) :
        ps \in Orderings({row.path : row \in {x \in rows : x.next = next}})}

\* ListPaths when the recursion ends: every response the query may produce
\* (the order of the groups and of the paths inside a group is not fixed by
\* the query)
ListPaths(db, req) ==
    LET rows == {x \in RelTree(db, req) : Selected(x, req)}
        groups == {row.next : row \in rows}
        items == [n \in groups |-> GroupItems(req, rows, n)]
        pick == {c \in [groups -> UNION {items[n] : n \in groups}] :
                    \A n \in groups : c[n] \in items[n]}
    IN  {[i \in 1..Cardinality(groups) |-> c[o[i]]] : c \in pick, o \in Orderings(groups)}

(***************************************************************************)
(* Path reducer and permission evaluator (serviceImpl)                     *)
(***************************************************************************)
\* pathContains looking at the first edge only
pathContains_FirstEdge(path, relation) == Len(path) > 0 /\ path[1].Relation = relation

\* pathContains
pathContains(path, relation) == \E i \in 1..Len(path) : path[i].Relation = relation

\* pathCount
pathCount(path, relation) == Cardinality({i \in 1..Len(path) : path[i].Relation = relation})

\* compare: the rules from index i on
RECURSIVE compareFrom(_, _, _, _)
compareFrom(a, b, rules, i) ==
    IF i > Len(rules) THEN 0
    ELSE IF rules[i].Rule = "path_with"
            /\ pathContains(a, rules[i].Relation) # pathContains(b, rules[i].Relation)
        THEN (IF pathContains(a, rules[i].Relation) THEN -1 ELSE 1)
    ELSE IF rules[i].Rule = "path_without"
            /\ pathContains(a, rules[i].Relation) # pathContains(b, rules[i].Relation)
        THEN (IF ~pathContains(a, rules[i].Relation) THEN -1 ELSE 1)
    ELSE IF rules[i].Rule = "path_with_fewer"
            /\ pathCount(a, rules[i].Relation) # pathCount(b, rules[i].Relation)
        THEN pathCount(a, rules[i].Relation) - pathCount(b, rules[i].Relation)
    ELSE compareFrom(a, b, rules, i + 1)

\* compare consulting the rules from the last to the first
compare_LastRuleFirst(a, b, rules) ==
    compareFrom(a, b, [i \in 1..Len(rules) |-> rules[Len(rules) + 1 - i]], 1)

\* compare whose first rule, when it is a path_with, looks at a alone
compare_WithLooksAtA(a, b, rules) ==
    IF Len(rules) > 0 /\ rules[1].Rule = "path_with" /\ pathContains(a, rules[1].Relation)
    THEN -1
    ELSE compareFrom(a, b, rules, 1)

compare(a, b, rules) == compareFrom(a, b, rules, 1)

\* effectivePaths: the loop over paths[1:], effective being the list kept so far
RECURSIVE effectiveLoop(_, _, _, _)
effectiveLoop(paths, rules, i, effective) ==
    IF i > Len(paths) THEN effective
    ELSE IF compare(paths[i], effective[1], rules) < 0
        THEN effectiveLoop(paths, rules, i + 1, <<paths[i]>>)
    ELSE IF compare(paths[i], effective[1], rules) = 0
        THEN effectiveLoop(paths, rules, i + 1, Append(effective, paths[i]))
    ELSE effectiveLoop(paths, rules, i + 1, effective)

\* effectivePaths whose loop starts at the first path, not at the second
effectivePaths_FromFirst(paths, rules) ==
    IF Len(paths) = 0 THEN << >> ELSE effectiveLoop(paths, rules, 1, <<paths[1]>>)

\* effectivePaths returning the first path alone
effectivePaths_FirstOnly(paths, rules) ==
    IF Len(paths) = 0 THEN << >> ELSE <<paths[1]>>

\* effectivePaths keeping every path that is no worse than the first
effectivePaths_NoWorseThanFirst(paths, rules) ==
    SelectSeq(paths, LAMBDA p : compare(p, paths[1], rules) <= 0)

effectivePaths(paths, rules) ==
    IF Len(paths) = 0 THEN << >> ELSE effectiveLoop(paths, rules, 2, <<paths[1]>>)

PermissionEval(allowed, matchingPaths) == [Allowed |-> allowed, MatchingPaths |-> matchingPaths]

\* allowSweep looking at the first path only
allowSweep_FirstPath(permission, paths, showMatchingPaths, i, j, eval) ==
    IF \E k \in 1..Len(permission.AnyOf) :
            Len(paths) > 0 /\ pathContains(paths[1], permission.AnyOf[k])
    THEN PermissionEval(TRUE, IF showMatchingPaths THEN <<paths[1]>> ELSE eval.MatchingPaths)
    ELSE eval

\* evaluatePermission, rule 2: the nested loops over AnyOf (index i) and paths
\* (index j), eval being the result built so far
RECURSIVE allowSweep(_, _, _, _, _, _)
allowSweep(permission, paths, showMatchingPaths, i, j, eval) ==
    IF i > Len(permission.AnyOf) THEN eval
    ELSE IF j > Len(paths) THEN allowSweep(permission, paths, showMatchingPaths, i + 1, 1, eval)
    ELSE IF pathContains(paths[j], permission.AnyOf[i])
        THEN IF showMatchingPaths
             THEN allowSweep(permission, paths, showMatchingPaths, i, j + 1,
                             PermissionEval(TRUE, Append(eval.MatchingPaths, paths[j])))
             ELSE PermissionEval(TRUE, eval.MatchingPaths)
    ELSE allowSweep(permission, paths, showMatchingPaths, i, j + 1, eval)

\* denySweep looking at the first excluded relation only
denySweep_FirstExcept(permission, paths) ==
    /\ Len(permission.Except) > 0
    /\ \E j \in 1..Len(paths) : pathContains(paths[j], permission.Except[1])

\* evaluatePermission, rule 1: some path contains an excluded relation
denySweep(permission, paths) ==
    \E i \in 1..Len(permission.Except) : \E j \in 1..Len(paths) :
        pathContains(paths[j], permission.Except[i])

\* evaluatePermission running the deny sweep only without show_matching_paths
evaluatePermission_ShowSkipsDeny(permission, paths, showMatchingPaths) ==
    IF ~showMatchingPaths /\ denySweep(permission, paths)
    THEN PermissionEval(FALSE, << >>)
    ELSE allowSweep(permission, paths, showMatchingPaths, 1, 1, PermissionEval(FALSE, << >>))

\* evaluatePermission
evaluatePermission(permission, paths, showMatchingPaths) ==
    IF denySweep(permission, paths)
    THEN PermissionEval(FALSE, << >>)
    ELSE allowSweep(permission, paths, showMatchingPaths, 1, 1, PermissionEval(FALSE, << >>))

\* evaluateAllPermissions: the map permission name -> PermissionEval
evaluateAllPermissions(m, resource, paths, showMatchingPaths) ==
    [name \in DOMAIN ObjectDef(m, resource.Type).Permissions |->
        evaluatePermission(ObjectDef(m, resource.Type).Permissions[name], paths,
                           showMatchingPaths)]

\* ListEffectivePaths after a successful ListPaths: tResponse is its response
ListEffectivePaths(m, request, tResponse) ==
    [i \in 1..Len(tResponse) |->
        [tResponse[i] EXCEPT !.Paths =
            effectivePaths(tResponse[i].Paths, ObjectDef(m, request.StartOn.Type).PrecedenceRules)]]

\* CheckPermissions of the service after a successful ListPaths
CheckPermissionsService(m, request, tResponse, showMatchingPaths) ==
    LET effective == ListEffectivePaths(m, request, tResponse)
    IN  [i \in 1..Len(effective) |->
            [Resource |-> effective[i].Resource,
             Subject |-> effective[i].Subject,
             PermissionEvals |-> evaluateAllPermissions(m, effective[i].Resource,
                                                        effective[i].Paths, showMatchingPaths)]]

(***************************************************************************)
(* HTTP handlers (AuthzHandler)                                            *)
(***************************************************************************)
\* parseObjectParam: a sequence of 0 (error) or 1 object; raw is the value of
\* the parameter, "" when it is missing
parseObjectParam(raw) ==
    LET object_parts == SplitN2(raw)
    IN  IF raw = EmptyStr
        THEN << >>
        ELSE <<Object(object_parts[1],
                      IF Len(object_parts) = 2 THEN object_parts[2] ELSE EmptyStr)>>

\* parseBoolParam for the values "", "true", "false"
parseBoolParam(raw) == raw = "true"

\* The outcome of a read request: its parameters, what was written to the
\* client (state "written"), or that the handler panicked or never returned;
\* with the TraversalRequest it built and the store operations it invoked.
Outcome(handler, params, state, status, payload, request, ops) ==
    [handler |-> handler, params |-> params, state |-> state, status |-> status,
     body |-> payload, tRequest |-> request, calls |-> ops]

BadRequest(handler, params) == Outcome(handler, params, "written", 400, << >>, << >>, << >>)

NoOutcome == Outcome("", << >>, "none", 0, << >>, << >>, << >>)

\* CheckPermission: every outcome of GET /permissions/{permission} on the rows db
CheckPermissionOutcomes(m, db, params) ==
    LET h == "CheckPermission"
        resource == parseObjectParam(params.resource)
        subject == parseObjectParam(params.subject)
    IN  IF resource = << >> THEN {BadRequest(h, params)}
        ELSE IF IsValidObject(m, resource[1]) # "" THEN {BadRequest(h, params)}
        ELSE IF subject = << >> THEN {BadRequest(h, params)}
        ELSE IF IsValidObject(m, subject[1]) # "" THEN {BadRequest(h, params)}
        ELSE IF params.permission = "" THEN {BadRequest(h, params)}
        ELSE IF IsValidPermission(m, resource[1], params.permission) # "" THEN {BadRequest(h, params)}
        ELSE
        LET request == TraversalRequest(resource[1], TRUE, NilSlice, subject)
            show == parseBoolParam(params.show_matching_paths)
        IN  {Outcome(h, params, "written", 500, << >>, <<request>>, <<"ListPaths">>)}
            \cup
            (IF Diverges(db, request)
             THEN {Outcome(h, params, "hang", 0, << >>, <<request>>, <<"ListPaths">>)}
             ELSE {IF Len(tResponse) = 0
                   THEN \* permissionCheck[0]: index out of range
                        Outcome(h, params, "panic", 0, << >>, <<request>>, <<"ListPaths">>)
                   ELSE Outcome(h, params, "written", 200,
                                <<CheckPermissionsService(m, request, tResponse, show)[1]
                                    .PermissionEvals[params.permission]>>,
                                <<request>>, <<"ListPaths">>) :
                   tResponse \in ListPaths(db, request)})

\* FilterRequest stopping a backward traversal on the subject filter's type
FilterRequest_SubjectType(resourceFilter, subjectFilter) ==
    IF resourceFilter.ID # EmptyStr
    THEN IF subjectFilter.ID # EmptyStr
         THEN TraversalRequest(resourceFilter, TRUE, NilSlice, <<subjectFilter>>)
         ELSE TraversalRequest(resourceFilter, TRUE, Slice(<<subjectFilter.Type>>), NoObject)
    ELSE TraversalRequest(subjectFilter, FALSE, Slice(<<subjectFilter.Type>>), NoObject)

\* the TraversalRequest CheckPermissions builds from its two filters
FilterRequest(resourceFilter, subjectFilter) ==
    IF resourceFilter.ID # EmptyStr
    THEN IF subjectFilter.ID # EmptyStr
         THEN TraversalRequest(resourceFilter, TRUE, NilSlice, <<subjectFilter>>)
         ELSE TraversalRequest(resourceFilter, TRUE, Slice(<<subjectFilter.Type>>), NoObject)
    ELSE IF resourceFilter.ID # EmptyStr
         THEN TraversalRequest(subjectFilter, FALSE, NilSlice, <<resourceFilter>>)
         ELSE TraversalRequest(subjectFilter, FALSE, Slice(<<resourceFilter.Type>>), NoObject)

\* CheckPermissions: every outcome of GET /permissions on the rows db
CheckPermissionsOutcomes(m, db, params) ==
    LET h == "CheckPermissions"
        resourceFilter == parseObjectParam(params.resource_filter)
        subjectFilter == parseObjectParam(params.subject_filter)
    IN  IF resourceFilter = << >> THEN {BadRequest(h, params)}
        ELSE IF IsValidObjectType(m, resourceFilter[1]) # "" THEN {BadRequest(h, params)}
        ELSE IF subjectFilter = << >> THEN {BadRequest(h, params)}
        ELSE IF IsValidObjectType(m, subjectFilter[1]) # "" THEN {BadRequest(h, params)}
        ELSE IF resourceFilter[1].ID = EmptyStr /\ subjectFilter[1].ID = EmptyStr
            THEN {BadRequest(h, params)}
        ELSE
        LET request == FilterRequest(resourceFilter[1], subjectFilter[1])
            show == parseBoolParam(params.show_matching_paths)
        IN  {Outcome(h, params, "written", 500, << >>, <<request>>, <<"ListPaths">>)}
            \cup
            (IF Diverges(db, request)
             THEN {Outcome(h, params, "hang", 0, << >>, <<request>>, <<"ListPaths">>)}
             ELSE {Outcome(h, params, "written", 200,
                           CheckPermissionsService(m, request, tResponse, show),
                           <<request>>, <<"ListPaths">>) :
                   tResponse \in ListPaths(db, request)})

\* ListResourceRelations: every outcome of GET /resources/{resource}/relations
ListResourceRelationsOutcomes(m, db, params) ==
    LET h == "ListResourceRelations"
        resource == parseObjectParam(params.resource)
    IN  IF resource = << >> THEN {BadRequest(h, params)}
        ELSE
        LET request == TraversalRequest(resource[1], TRUE, Slice(<<user, group>>), NoObject)
        IN  {Outcome(h, params, "written", 500, << >>, <<request>>, <<"ListPaths">>)}
            \cup
            (IF Diverges(db, request)
             THEN {Outcome(h, params, "hang", 0, << >>, <<request>>, <<"ListPaths">>)}
             ELSE {Outcome(h, params, "written", 200, ListEffectivePaths(m, request, tResponse),
                           <<request>>, <<"ListPaths">>) :
                   tResponse \in ListPaths(db, request)})

\* json decoding of the body of POST /relations: a sequence of 0 (error) or 1
\* decoded body
DecodeBody(wire) ==
    LET delete == [i \in 1..Len(wire.delete) |-> UnmarshalRelationship(wire.delete[i])]
        create == [i \in 1..Len(wire.create) |-> UnmarshalRelationship(wire.create[i])]
    IN  IF \E i \in 1..Len(delete) : delete[i] = << >> THEN << >>
        ELSE IF \E i \in 1..Len(create) : create[i] = << >> THEN << >>
        ELSE <<[hasDelete |-> wire.hasDelete,
                delete |-> [i \in 1..Len(delete) |-> delete[i][1]],
                hasCreate |-> wire.hasCreate,
                create |-> [i \in 1..Len(create) |-> create[i][1]]]>>

\* AllValid validating the entries to create only
AllValid_CreateOnly(m, req) ==
    \A i \in 1..Len(req.create) : IsValidRelation(m, req.create[i]) = ""

\* ManageRelationships: the loop that validates every entry of the body
AllValid(m, req) ==
    /\ \A i \in 1..Len(req.delete) : IsValidRelation(m, req.delete[i]) = ""
    /\ \A i \in 1..Len(req.create) : IsValidRelation(m, req.create[i]) = ""

ManageResponse(state, status) == [state |-> state, status |-> status]

NoBody == [hasDelete |-> FALSE, delete |-> << >>, hasCreate |-> FALSE, create |-> << >>]

(***************************************************************************)
(* Inputs of the requests                                                  *)
(***************************************************************************)
d1 == <<"d1">>
f1 == <<"f1">>
alice == <<"alice">>

\* values of an object parameter: missing, type:id, type alone, an empty
\* type, a type the schema does not declare
RawParams ==
    {EmptyStr,
     <<"document", Colon, "d1">>, <<"document">>,
     <<"user", Colon, "alice">>, <<"user">>,
     <<"ghost", Colon, "g1">>, <<Colon, "d1">>}

DocParam == <<"document", Colon, "d1">>
UserParam == <<"user", Colon, "alice">>

PermissionParams == {"edit", "view"}

BoolParams == {"", "true"}

\* entries of a POST /relations body: three valid relationships, one whose
\* subject type the relation does not allow, one whose resource has no colon,
\* and four that break one invariant of a Relationship each
ValidWire ==
    {[resource |-> <<"document", Colon, "d1">>, subject |-> <<"user", Colon, "alice">>,
      relation |-> "owner"],
     [resource |-> <<"document", Colon, "d1">>, subject |-> <<"folder", Colon, "f1">>,
      relation |-> "parent"],
     [resource |-> <<"folder", Colon, "f1">>, subject |-> <<"user", Colon, "alice">>,
      relation |-> "member"]}

InvalidWire ==
    {[resource |-> <<"document", Colon, "d1">>, subject |-> <<"folder", Colon, "f1">>,
      relation |-> "owner"],
     [resource |-> <<"document">>, subject |-> <<"user", Colon, "alice">>,
      relation |-> "owner"],
     \* an empty id, a type and a relation the schema does not declare, no relation
     [resource |-> <<"document", Colon>>, subject |-> <<"user", Colon, "alice">>,
      relation |-> "owner"],
     [resource |-> <<"ghost", Colon, "g1">>, subject |-> <<"user", Colon, "alice">>,
      relation |-> "owner"],
     [resource |-> <<"document", Colon, "d1">>, subject |-> <<"user", Colon, "alice">>,
      relation |-> "member"],
     [resource |-> <<"document", Colon, "d1">>, subject |-> <<"user", Colon, "alice">>,
      relation |-> ""]}

WireRels == ValidWire \cup InvalidWire

\* bodies of POST /relations with at most MaxRels entries; a key that is
\* absent has no entries
BodiesOf(i, j) ==
    {[hasDelete |-> hd, delete |-> d, hasCreate |-> hc, create |-> c] :
        hd \in (IF i = 0 THEN BOOLEAN ELSE {TRUE}), d \in [1..i -> WireRels],
        hc \in (IF j = 0 THEN BOOLEAN ELSE {TRUE}), c \in [1..j -> WireRels]}

Bodies == UNION {BodiesOf(n[1], n[2]) : n \in {x \in (0..MaxRels) \X (0..MaxRels) : x[1] + x[2] <= MaxRels}}

\* the step of a transaction that fails
Faults == {"none", "begin", "exec", "commit"}

\* an entry of a body that does not decode, or decodes to a relationship the
\* schema does not allow
InvalidEntry(w) ==
    \/ UnmarshalRelationship(w) = << >>
    \/ IsValidRelation(Meta, UnmarshalRelationship(w)[1]) # ""

\* the relationships the entries of a list decode to
DecodedEntries(list) ==
    {UnmarshalRelationship(w)[1] : w \in {x \in Range(list) : UnmarshalRelationship(x) # << >>}}

\* what a body holds: its entries, those of them that are not valid, and the
\* relationships listed both to delete and to create
Entries(wire) ==
    [entries |-> Len(wire.delete) + Len(wire.create),
     invalid |-> Cardinality({i \in 1..Len(wire.delete) : InvalidEntry(wire.delete[i])})
                 + Cardinality({i \in 1..Len(wire.create) : InvalidEntry(wire.create[i])}),
     both |-> DecodedEntries(wire.delete) \cap DecodedEntries(wire.create)]

NoEntries == [entries |-> 0, invalid |-> 0, both |-> {}]

\* the decoding and the summary of every body, computed once
Decoded == [b \in Bodies |-> DecodeBody(b)]
Summary == [b \in Bodies |-> Entries(b)]

(***************************************************************************)
(* State machine of the server                                             *)
(***************************************************************************)
Init ==
    /\ store = {}
    /\ pc = "idle"
    /\ body = NoBody
    /\ storeAtStart = {}
    /\ mreq = NoEntries
    /\ calls = << >>
    /\ mresp = ManageResponse("none", 0)
    /\ resp = NoOutcome
    /\ evalIn = << >>
    /\ evalOut = << >>

\* POST /relations, up to its first store call: decode and validate the body
ManageRelationships(wire) ==
    /\ pc = "idle"
    /\ storeAtStart' = store
    /\ mreq' = Summary[wire]
    /\ calls' = << >>
    /\ LET req == Decoded[wire]
       IN  IF req = << >>
           THEN /\ mresp' = ManageResponse("written", 400)
                /\ UNCHANGED <<pc, body>>
           ELSE IF ~AllValid(Meta, req[1])
           THEN /\ mresp' = ManageResponse("written", 400)
                /\ UNCHANGED <<pc, body>>
           ELSE IF req[1].hasDelete
           THEN /\ pc' = "delete"
                /\ body' = req[1]
                /\ mresp' = ManageResponse("pending", 0)
           ELSE IF req[1].hasCreate
           THEN /\ pc' = "create"
                /\ body' = req[1]
                /\ mresp' = ManageResponse("pending", 0)
           ELSE /\ mresp' = ManageResponse("written", 200)
                /\ UNCHANGED <<pc, body>>
    /\ UNCHANGED <<store, resp, evalIn, evalOut>>

\* POST /relations: h.authzService.DeleteRelationships(r.Context(), req["delete"])
ManageDelete(fault) ==
    /\ pc = "delete"
    /\ LET r == DeleteRelationships(NoTx, store, body.delete, fault)
       IN  /\ store' = r.committed
           /\ calls' = calls \o r.calls
           /\ IF r.err # ""
              THEN /\ mresp' = ManageResponse("written", 500)
                   /\ pc' = "idle"
                   /\ body' = NoBody
              ELSE IF body.hasCreate
              THEN /\ pc' = "create"
                   /\ UNCHANGED <<mresp, body>>
              ELSE /\ mresp' = ManageResponse("written", 200)
                   /\ pc' = "idle"
                   /\ body' = NoBody
    /\ UNCHANGED <<storeAtStart, mreq, resp, evalIn, evalOut>>

\* ManageCreate running the deletions of the body once more after its
\* creations: the deletions come last
ManageCreate_DeletionsLast(fault) ==
    /\ pc = "create"
    /\ LET r == CreateRelationships(NoTx, store, body.create, fault)
       IN  /\ store' = DeleteRelationships(NoTx, r.committed, body.delete, "none").committed
           /\ calls' = calls \o r.calls
           /\ mresp' = ManageResponse("written", IF r.err # "" THEN 500 ELSE 200)
    /\ pc' = "idle"
    /\ body' = NoBody
    /\ UNCHANGED <<storeAtStart, mreq, resp, evalIn, evalOut>>

\* POST /relations: h.authzService.CreateRelationships(r.Context(), req["create"])
ManageCreate(fault) ==
    /\ pc = "create"
    /\ LET r == CreateRelationships(NoTx, store, body.create, fault)
       IN  /\ store' = r.committed
           /\ calls' = calls \o r.calls
           /\ mresp' = ManageResponse("written", IF r.err # "" THEN 500 ELSE 200)
    /\ pc' = "idle"
    /\ body' = NoBody
    /\ UNCHANGED <<storeAtStart, mreq, resp, evalIn, evalOut>>

\* GET /permissions/{permission}
CheckPermission(params) ==
    /\ resp' \in CheckPermissionOutcomes(Meta, store, params)
    /\ UNCHANGED <<store, pc, body, storeAtStart, mreq, calls, mresp, evalIn, evalOut>>

\* GET /permissions
CheckPermissions(params) ==
    /\ resp' \in CheckPermissionsOutcomes(Meta, store, params)
    /\ UNCHANGED <<store, pc, body, storeAtStart, mreq, calls, mresp, evalIn, evalOut>>

\* GET /resources/{resource}/relations
ListResourceRelations(params) ==
    /\ resp' \in ListResourceRelationsOutcomes(Meta, store, params)
    /\ UNCHANGED <<store, pc, body, storeAtStart, mreq, calls, mresp, evalIn, evalOut>>

\* The server: one ManageRelationships request at a time, read requests at
\* any moment (between its two transactions too).  The read requests are the
\* well-formed ones; SpecRead below runs every read request.
Next ==
    \/ \E wire \in Bodies : ManageRelationships(wire)
    \/ \E fault \in Faults : ManageDelete(fault)
    \/ \E fault \in Faults : ManageCreate(fault)
    \/ \E params \in [resource : {DocParam}, subject : {UserParam},
                      permission : {"edit"}, show_matching_paths : {""}] :
            CheckPermission(params)
    \/ \E params \in [resource_filter : {<<"document">>}, subject_filter : {UserParam},
                      show_matching_paths : {""}] :
            CheckPermissions(params)
    \/ \E params \in [resource : {DocParam}] : ListResourceRelations(params)

Spec == Init /\ [][Next]_vars

(***************************************************************************)
(* The read endpoints on every store the server can reach                  *)
(***************************************************************************)
\* the rows the valid entries of a body can insert
ValidRows == {UnmarshalRelationship(w)[1] : w \in ValidWire}

InitRead ==
    /\ store \in SUBSET ValidRows
    /\ pc = "idle"
    /\ body = NoBody
    /\ storeAtStart = store
    /\ mreq = NoEntries
    /\ calls = << >>
    /\ mresp = ManageResponse("none", 0)
    /\ resp = NoOutcome
    /\ evalIn = << >>
    /\ evalOut = << >>

NextRead ==
    \/ \E params \in [resource : RawParams, subject : RawParams,
                      permission : PermissionParams, show_matching_paths : BoolParams] :
            CheckPermission(params)
    \/ \E params \in [resource_filter : RawParams, subject_filter : RawParams,
                      show_matching_paths : BoolParams] :
            CheckPermissions(params)
    \/ \E params \in [resource : RawParams] : ListResourceRelations(params)

SpecRead == InitRead /\ [][NextRead]_vars

(***************************************************************************)
(* ListPaths called directly, with any TraversalRequest, on a store the    *)
(* server can reach                                                        *)
(***************************************************************************)
\* rows the schema allows, among them a folder that is its own parent
PathRows ==
    {Relationship(Object(document, d1), "owner", Object(user, alice)),
     Relationship(Object(document, d1), "parent", Object(folder, f1)),
     Relationship(Object(folder, f1), "member", Object(user, alice)),
     Relationship(Object(folder, f1), "owner", Object(user, alice)),
     Relationship(Object(folder, f1), "parent", Object(folder, f1))}

PathObjects == {Object(document, d1), Object(folder, f1), Object(user, alice)}

PathRequests ==
    {TraversalRequest(startOn, forward, stopOnTypes, stopOn) :
        startOn \in PathObjects,
        forward \in BOOLEAN,
        stopOnTypes \in {NilSlice, Slice(<< >>), Slice(<<user>>), Slice(<<folder>>),
                         Slice(<<document>>), Slice(<<user, group>>)},
        stopOn \in {NoObject} \cup {<<o>> : o \in PathObjects}}

InitPaths ==
    /\ store \in SUBSET PathRows
    /\ pc = "idle"
    /\ body = NoBody
    /\ storeAtStart = store
    /\ mreq = NoEntries
    /\ calls = << >>
    /\ mresp = ManageResponse("none", 0)
    /\ resp = NoOutcome
    /\ evalIn = << >>
    /\ evalOut = << >>

\* one call of pgRepository.ListPaths: the query never returns, or returns
\* one of the responses it may produce
ListPathsCall(request) ==
    /\ evalIn = << >>
    /\ evalIn' = <<[fn |-> "ListPaths", request |-> request]>>
    /\ evalOut' \in
        IF Diverges(store, request)
        THEN {<<[diverges |-> TRUE, response |-> << >>]>>}
        ELSE {<<[diverges |-> FALSE, response |-> r]>> : r \in ListPaths(store, request)}
    /\ UNCHANGED <<store, pc, body, storeAtStart, mreq, calls, mresp, resp>>

\* one call of serviceImpl.ListEffectivePaths: as ListPaths, its response
\* (kept as traversed) reduced
ListEffectivePathsCall(request) ==
    /\ evalIn = << >>
    /\ evalIn' = <<[fn |-> "ListEffectivePaths", request |-> request]>>
    /\ evalOut' \in
        IF Diverges(store, request)
        THEN {<<[diverges |-> TRUE, traversed |-> << >>, response |-> << >>]>>}
        ELSE {<<[diverges |-> FALSE, traversed |-> t,
                 response |-> ListEffectivePaths(Meta, request, t)]>> :
                t \in ListPaths(store, request)}
    /\ UNCHANGED <<store, pc, body, storeAtStart, mreq, calls, mresp, resp>>

NextPaths ==
    \/ \E request \in PathRequests : ListPathsCall(request)
    \/ \E request \in PathRequests : ListEffectivePathsCall(request)

SpecPaths == InitPaths /\ [][NextPaths]_vars

(***************************************************************************)
(* evaluatePermission called directly                                      *)
(***************************************************************************)
\* walks from document:d1 to user:alice
EvalPaths ==
    {<<Relationship(Object(document, d1), "owner", Object(user, alice))>>,
     <<Relationship(Object(document, d1), "editor", Object(user, alice))>>,
     <<Relationship(Object(document, d1), "banned", Object(user, alice))>>,
     <<Relationship(Object(document, d1), "parent", Object(folder, f1)),
       Relationship(Object(folder, f1), "owner", Object(user, alice))>>,
     <<Relationship(Object(document, d1), "parent", Object(folder, f1)),
       Relationship(Object(folder, f1), "member", Object(user, alice))>>}

EvalPermissions ==
    [AnyOf : SeqsUpTo({"owner", "parent", "member"}, MaxAnyOf),
     Except : {<< >>, <<"banned">>, <<"member">>, <<"banned", "member">>}]

\* precedence rules, among them one of a kind compare does not know
EvalRules ==
    [Rule : {"path_with", "path_without", "path_with_fewer", "path_first"},
     Relation : {"owner", "parent"}]

\* the paths compare is called with: those above and a walk through two
\* folders, which holds the relation parent twice
f2 == <<"f2">>

ComparePaths ==
    EvalPaths
    \cup {<<Relationship(Object(document, d1), "parent", Object(folder, f1)),
             Relationship(Object(folder, f1), "parent", Object(folder, f2)),
             Relationship(Object(folder, f2), "owner", Object(user, alice))>>}

InitEval ==
    /\ store = {}
    /\ pc = "idle"
    /\ body = NoBody
    /\ storeAtStart = {}
    /\ mreq = NoEntries
    /\ calls = << >>
    /\ mresp = ManageResponse("none", 0)
    /\ resp = NoOutcome
    /\ evalIn \in {<<[fn |-> "evaluatePermission", permission |-> p, paths |-> ps,
                      showMatchingPaths |-> show]>> :
                    p \in EvalPermissions, ps \in SeqsUpTo(EvalPaths, MaxPaths),
                    show \in BOOLEAN}
                 \cup
                 {<<[fn |-> "effectivePaths", paths |-> ps, rules |-> rules]>> :
                    ps \in SeqsUpTo(EvalPaths, MaxReduced),
                    rules \in SeqsUpTo(EvalRules, MaxRules)}
                 \cup
                 {<<[fn |-> "compare", a |-> a, b |-> b, rules |-> rules]>> :
                    a \in ComparePaths, b \in ComparePaths,
                    rules \in SeqsUpTo(EvalRules, MaxRules)}
    /\ evalOut = << >>

\* one call of serviceImpl.evaluatePermission
EvaluatePermissionCall ==
    /\ evalIn[1].fn = "evaluatePermission"
    /\ evalOut = << >>
    /\ evalOut' = <<evaluatePermission(evalIn[1].permission, evalIn[1].paths,
                                       evalIn[1].showMatchingPaths)>>
    /\ UNCHANGED <<store, pc, body, storeAtStart, mreq, calls, mresp, resp, evalIn>>

\* one call of effectivePaths
EffectivePathsCall ==
    /\ evalIn[1].fn = "effectivePaths"
    /\ evalOut = << >>
    /\ evalOut' = <<effectivePaths(evalIn[1].paths, evalIn[1].rules)>>
    /\ UNCHANGED <<store, pc, body, storeAtStart, mreq, calls, mresp, resp, evalIn>>

\* effectivePaths called on the result of the call before, with the same rules
EffectivePathsAgainCall ==
    /\ evalIn[1].fn = "effectivePaths"
    /\ Len(evalOut) = 1
    /\ evalOut' = Append(evalOut, effectivePaths(evalOut[1], evalIn[1].rules))
    /\ UNCHANGED <<store, pc, body, storeAtStart, mreq, calls, mresp, resp, evalIn>>

\* one call of compare
CompareCall ==
    /\ evalIn[1].fn = "compare"
    /\ evalOut = << >>
    /\ evalOut' = <<compare(evalIn[1].a, evalIn[1].b, evalIn[1].rules)>>
    /\ UNCHANGED <<store, pc, body, storeAtStart, mreq, calls, mresp, resp, evalIn>>

NextEval ==
    \/ CompareCall
    \/ EvaluatePermissionCall
    \/ EffectivePathsCall
    \/ EffectivePathsAgainCall

SpecEval == InitEval /\ [][NextEval]_vars

(***************************************************************************)
(* InsertBulk and DeleteBulk called directly, outside a transaction        *)
(***************************************************************************)
\* rows the schema allows, two of them between the same resource and subject
StoreRows ==
    {Relationship(Object(document, d1), "owner", Object(user, alice)),
     Relationship(Object(document, d1), "editor", Object(user, alice)),
     Relationship(Object(document, d1), "parent", Object(folder, f1)),
     Relationship(Object(folder, f1), "member", Object(user, alice))}

\* the step of a statement that fails
StatementFaults == {"none", "exec"}

\* a write operation of the repository run on the pool: its statement is
\* applied as a whole, or fails and changes nothing
RepositoryWrite(op, db, relationships, fault) ==
    IF fault = "exec" /\ Len(relationships) > 0
    THEN [db |-> db, err |-> "exec failed"]
    ELSE [db |-> ExecWrite(op, db, relationships), err |-> ""]

InitStore ==
    /\ store \in SUBSET StoreRows
    /\ pc = "idle"
    /\ body = NoBody
    /\ storeAtStart = store
    /\ mreq = NoEntries
    /\ calls = << >>
    /\ mresp = ManageResponse("none", 0)
    /\ resp = NoOutcome
    /\ evalIn = << >>
    /\ evalOut = << >>

\* one call of a write operation; evalIn keeps the call and the store before
\* it, and, when the call deletes the one relationship that the call before
\* it inserted without error, the store before that insert
WriteCall(op, relationships, fault) ==
    LET r == RepositoryWrite(op, store, relationships, fault)
    IN  /\ store' = r.db
        /\ evalIn' = <<[fn |-> op, relationships |-> relationships, fault |-> fault,
                        before |-> store,
                        inserted |->
                            IF /\ op = "DeleteBulk"
                               /\ evalIn # << >>
                               /\ evalIn[1].fn = "InsertBulk"
                               /\ Len(evalIn[1].relationships) = 1
                               /\ evalIn[1].relationships = relationships
                               /\ evalOut[1].err = ""
                            THEN <<[relationship |-> evalIn[1].relationships[1],
                                    before |-> evalIn[1].before]>>
                            ELSE << >>]>>
        /\ evalOut' = <<[err |-> r.err]>>
        /\ UNCHANGED <<pc, body, storeAtStart, mreq, calls, mresp, resp>>

InsertBulkCall(relationships, fault) == WriteCall("InsertBulk", relationships, fault)

DeleteBulkCall(relationships, fault) == WriteCall("DeleteBulk", relationships, fault)

NextStore ==
    \/ \E relationships \in SeqsUpTo(StoreRows, MaxRels), fault \in StatementFaults :
            InsertBulkCall(relationships, fault)
    \/ \E relationships \in SeqsUpTo(StoreRows, MaxRels), fault \in StatementFaults :
            DeleteBulkCall(relationships, fault)

SpecStore == InitStore /\ [][NextStore]_vars

(***************************************************************************)
(* WithTransaction called directly: without a transaction in the context,  *)
(* with one, and nested in the user function of another WithTransaction    *)
(***************************************************************************)
\* the step of a transaction that fails, or the user function panicking
TxFaults == Faults \cup {"panic"}

\* the rows the transaction of a context may see
TxViews ==
    {{},
     {Relationship(Object(document, d1), "owner", Object(user, alice)),
      Relationship(Object(document, d1), "editor", Object(user, alice))}}

\* the step of the outer transaction that fails
OuterFaults == {"none", "begin", "commit"}

\* WithTransaction(ctx, fn) whose fn calls WithTransaction(ctx, write) with
\* the context it was given: fault is the fault of the inner call, outerFault
\* that of the outer one
NestedWithTransaction(committed, op, relationships, fault, outerFault) ==
    LET inner == WithTransaction(<<committed>>, committed, op, relationships, fault)
    IN  WithTransactionFn(NoTx, committed,
                           (committed :> FnResult(inner.tx[1], inner.err, inner.panic,
                                                  inner.calls)),
                           outerFault)

InitTx ==
    /\ store \in SUBSET StoreRows
    /\ pc = "idle"
    /\ body = NoBody
    /\ storeAtStart = store
    /\ mreq = NoEntries
    /\ calls = << >>
    /\ mresp = ManageResponse("none", 0)
    /\ resp = NoOutcome
    /\ evalIn = << >>
    /\ evalOut = << >>

\* one call of WithTransaction with a write operation as user function
WithTransactionCall(ctxTx, op, relationships, fault) ==
    /\ evalIn = << >>
    /\ LET r == WithTransaction(ctxTx, store, op, relationships, fault)
       IN  /\ store' = r.committed
           /\ evalOut' = <<r>>
    /\ evalIn' = <<[fn |-> "WithTransaction", nested |-> FALSE, ctxTx |-> ctxTx, op |-> op,
                    relationships |-> relationships, fault |-> fault,
                    outerFault |-> "none", before |-> store]>>
    /\ UNCHANGED <<pc, body, storeAtStart, mreq, calls, mresp, resp>>

\* one call of WithTransaction whose user function calls WithTransaction
NestedWithTransactionCall(op, relationships, fault, outerFault) ==
    /\ evalIn = << >>
    /\ LET r == NestedWithTransaction(store, op, relationships, fault, outerFault)
       IN  /\ store' = r.committed
           /\ evalOut' = <<r>>
    /\ evalIn' = <<[fn |-> "WithTransaction", nested |-> TRUE, ctxTx |-> NoTx, op |-> op,
                    relationships |-> relationships, fault |-> fault,
                    outerFault |-> outerFault, before |-> store]>>
    /\ UNCHANGED <<pc, body, storeAtStart, mreq, calls, mresp, resp>>

NextTx ==
    \/ \E ctxTx \in {NoTx} \cup {<<rows>> : rows \in TxViews},
          op \in {"InsertBulk", "DeleteBulk"},
          relationships \in SeqsUpTo(StoreRows, MaxRels), fault \in TxFaults :
            WithTransactionCall(ctxTx, op, relationships, fault)
    \/ \E op \in {"InsertBulk", "DeleteBulk"},
          relationships \in SeqsUpTo(StoreRows, MaxRels), fault \in TxFaults,
          outerFault \in OuterFaults :
            NestedWithTransactionCall(op, relationships, fault, outerFault)

SpecTx == InitTx /\ [][NextTx]_vars

(***************************************************************************)
(* CheckPermissions of the service called directly: the three requests the *)
(* handlers build for one resource and one subject, and one request before *)
(* and after a relationship is created                                     *)
(***************************************************************************)
\* a schema document with the relations of Meta, whose document type puts the
\* paths through a parent first and excludes no relation from edit
MetaParentFirst ==
    [Meta EXCEPT
        !.Objects[document].Permissions =
            [edit |-> [AnyOf |-> <<"owner", "editor">>, Except |-> << >>]],
        !.Objects[document].PrecedenceRules =
            <<[Rule |-> "path_with", Relation |-> "parent"]>>]

SchemaNames == {"scenario", "parent_first"}

Schema(name) == IF name = "scenario" THEN Meta ELSE MetaParentFirst

\* rows both schemas allow, among them a folder that is its own parent
CheckRows ==
    {Relationship(Object(document, d1), "owner", Object(user, alice)),
     Relationship(Object(document, d1), "banned", Object(user, alice)),
     Relationship(Object(document, d1), "parent", Object(folder, f1)),
     Relationship(Object(folder, f1), "member", Object(user, alice)),
     Relationship(Object(folder, f1), "parent", Object(folder, f1))}

\* the pairs (resource, subject) that are checked
CheckPairs ==
    {<<Object(document, d1), Object(user, alice)>>,
     <<Object(folder, f1), Object(user, alice)>>,
     <<Object(document, d1), Object(folder, f1)>>}

\* the three ways a handler asks for the permissions of a pair: CheckPermission
\* ("exact"), CheckPermissions with the id of the resource only ("forward"),
\* CheckPermissions with the id of the subject only ("backward")
Forms == {"exact", "forward", "backward"}

FormRequest(resource, subject, form) ==
    IF form = "exact" THEN TraversalRequest(resource, TRUE, NilSlice, <<subject>>)
    ELSE IF form = "forward" THEN FilterRequest(resource, Object(subject.Type, EmptyStr))
    ELSE FilterRequest(Object(resource.Type, EmptyStr), subject)

\* serviceImpl.CheckPermissions without show_matching_paths: the query never
\* returns, or the permissions of one of the responses it may produce
CheckPermissionsResults(m, db, request) ==
    IF Diverges(db, request)
    THEN {[diverges |-> TRUE, response |-> << >>]}
    ELSE {[diverges |-> FALSE, response |-> CheckPermissionsService(m, request, t, FALSE)] :
            t \in ListPaths(db, request)}

CheckRecord(fn, schema, resource, subject, form, relationships) ==
    [fn |-> fn, schema |-> schema, resource |-> resource, subject |-> subject,
     form |-> form, relationships |-> relationships]

InitCheck ==
    /\ store \in SUBSET CheckRows
    /\ pc = "idle"
    /\ body = NoBody
    /\ storeAtStart = store
    /\ mreq = NoEntries
    /\ calls = << >>
    /\ mresp = ManageResponse("none", 0)
    /\ resp = NoOutcome
    /\ evalIn = << >>
    /\ evalOut = << >>

\* the first call of serviceImpl.CheckPermissions
CheckPermissionsCall(schema, resource, subject, form) ==
    /\ evalIn = << >>
    /\ evalIn' = <<CheckRecord("CheckPermissions", schema, resource, subject, form, << >>)>>
    /\ \E r \in CheckPermissionsResults(Schema(schema), store,
                                        FormRequest(resource, subject, form)) :
            evalOut' = <<r>>
    /\ UNCHANGED <<store, pc, body, storeAtStart, mreq, calls, mresp, resp>>

\* a later call of serviceImpl.CheckPermissions for the same pair, with a
\* request of another form, on the same store
CheckPermissionsOtherCall(form) ==
    /\ Len(evalIn) \in 1..2
    /\ \A i \in 1..Len(evalIn) : evalIn[i].fn = "CheckPermissions" /\ evalIn[i].form # form
    /\ evalIn' = Append(evalIn, [evalIn[1] EXCEPT !.form = form])
    /\ \E r \in CheckPermissionsResults(Schema(evalIn[1].schema), store,
                                        FormRequest(evalIn[1].resource, evalIn[1].subject, form)) :
            evalOut' = Append(evalOut, r)
    /\ UNCHANGED <<store, pc, body, storeAtStart, mreq, calls, mresp, resp>>

\* serviceImpl.CreateRelationships of one relationship after the first check
CreateRelationshipsCall(relationship) ==
    /\ Len(evalIn) = 1
    /\ store' = CreateRelationships(NoTx, store, <<relationship>>, "none").committed
    /\ evalIn' = Append(evalIn, [evalIn[1] EXCEPT !.fn = "CreateRelationships",
                                                  !.relationships = <<relationship>>])
    /\ evalOut' = Append(evalOut, [diverges |-> FALSE, response |-> << >>])
    /\ UNCHANGED <<pc, body, storeAtStart, mreq, calls, mresp, resp>>

\* the first call of serviceImpl.CheckPermissions made again after the
\* relationship was created
CheckPermissionsAgainCall ==
    /\ Len(evalIn) = 2
    /\ evalIn[2].fn = "CreateRelationships"
    /\ evalIn' = Append(evalIn, evalIn[1])
    /\ \E r \in CheckPermissionsResults(Schema(evalIn[1].schema), store,
                                        FormRequest(evalIn[1].resource, evalIn[1].subject,
                                                    evalIn[1].form)) :
            evalOut' = Append(evalOut, r)
    /\ UNCHANGED <<store, pc, body, storeAtStart, mreq, calls, mresp, resp>>

NextCheck ==
    \/ \E schema \in SchemaNames, pair \in CheckPairs, form \in Forms :
            CheckPermissionsCall(schema, pair[1], pair[2], form)
    \/ \E form \in Forms : CheckPermissionsOtherCall(form)
    \/ \E relationship \in CheckRows : CreateRelationshipsCall(relationship)
    \/ CheckPermissionsAgainCall

SpecCheck == InitCheck /\ [][NextCheck]_vars

(***************************************************************************)
(* Properties                                                              *)
(***************************************************************************)
Count(s, x) == Cardinality({i \in 1..Len(s) : s[i] = x})

\* C1: a ManageRelationships request that fails with a store error (in its
\* creation step too) leaves the store as it was before the request: its
\* deletions and creations are one transaction.
C1_ManageRollsBackDeletions ==
    (mresp.state = "written" /\ mresp.status = 500) => store = storeAtStart

\* C2: a ManageRelationships body with an entry that is not valid, whatever
\* its other entries, is answered 400 with no store operation invoked and
\* the store unchanged.
C2_InvalidEntryRejectsBody ==
    mreq.invalid > 0 =>
        /\ pc = "idle"
        /\ mresp = ManageResponse("written", 400)
        /\ calls = << >>
        /\ store = storeAtStart

\* a body of two entries, one of them valid, was rejected
C2_Witness ==
    /\ mreq.entries = 2
    /\ mreq.invalid = 1
    /\ mresp = ManageResponse("written", 400)
    /\ store # {}

EvalCalled == evalIn # << >> /\ evalOut # << >> /\ evalIn[1].fn = "evaluatePermission"

\* some path has an edge whose relation is in the list
SomePathHas(paths, relations) ==
    \E j \in 1..Len(paths) : \E k \in 1..Len(paths[j]) :
        \E i \in 1..Len(relations) : paths[j][k].Relation = relations[i]

\* C3: when some path contains a relation of the permission's except list,
\* evaluatePermission returns allowed = false and no matching paths, whatever
\* any_of matches and whatever show_matching_paths is.
C3_DenySweep ==
    (EvalCalled /\ SomePathHas(evalIn[1].paths, evalIn[1].permission.Except)) =>
        evalOut[1] = PermissionEval(FALSE, << >>)

\* denied with show_matching_paths although any_of matches a path, the
\* excluded relation being the second of the except list
C3_Witness ==
    /\ EvalCalled
    /\ evalIn[1].showMatchingPaths
    /\ SomePathHas(evalIn[1].paths, evalIn[1].permission.AnyOf)
    /\ Len(evalIn[1].permission.Except) = 2
    /\ ~SomePathHas(evalIn[1].paths, <<evalIn[1].permission.Except[1]>>)
    /\ SomePathHas(evalIn[1].paths, <<evalIn[1].permission.Except[2]>>)
    /\ evalOut[1] = PermissionEval(FALSE, << >>)

\* C4: when no path contains a relation of the except list, evaluatePermission
\* returns allowed = true exactly when some path has an edge whose relation
\* is in any_of (so allowed = false with no paths or no match).
C4_AllowSweep ==
    (EvalCalled /\ ~SomePathHas(evalIn[1].paths, evalIn[1].permission.Except)) =>
        (evalOut[1].Allowed <=> SomePathHas(evalIn[1].paths, evalIn[1].permission.AnyOf))

\* allowed through the second edge of the second path only
C4_Witness ==
    /\ EvalCalled
    /\ ~SomePathHas(evalIn[1].paths, evalIn[1].permission.Except)
    /\ Len(evalIn[1].paths) = 2
    /\ ~SomePathHas(<<evalIn[1].paths[1]>>, evalIn[1].permission.AnyOf)
    /\ Len(evalIn[1].paths[2]) = 2
    /\ ~SomePathHas(<<SubSeq(evalIn[1].paths[2], 1, 1)>>, evalIn[1].permission.AnyOf)
    /\ evalOut[1].Allowed

\* the relations of the list are distinct
Distinct(relations) ==
    \A i, j \in 1..Len(relations) : relations[i] = relations[j] => i = j

\* C5: with show_matching_paths and an any_of of distinct relations, a path
\* is recorded in matching_paths no more often than it occurs in the path
\* list, even when it contains several relations of any_of.
C5_MatchingPathsAtMostOnce ==
    (EvalCalled /\ evalIn[1].showMatchingPaths /\ Distinct(evalIn[1].permission.AnyOf)) =>
        \A j \in 1..Len(evalIn[1].paths) :
            Count(evalOut[1].MatchingPaths, evalIn[1].paths[j])
                <= Count(evalIn[1].paths, evalIn[1].paths[j])

\* C6: a CheckPermission request that passes validation and meets no store
\* error is answered 200 with the PermissionEval of the named permission.
C6_CheckPermissionAnswers ==
    (resp.handler = "CheckPermission" /\ resp.tRequest # << >> /\ resp.status # 500) =>
        /\ resp.state = "written"
        /\ resp.status = 200
        /\ Len(resp.body) = 1

\* the resource or subject parameter of the read request is not a valid object
\* (for the two filters: not a valid object type)
InvalidObjectParam(r) ==
    LET bad(raw) == parseObjectParam(raw) = << >>
                    \/ IsValidObject(Meta, parseObjectParam(raw)[1]) # ""
        badType(raw) == parseObjectParam(raw) = << >>
                        \/ IsValidObjectType(Meta, parseObjectParam(raw)[1]) # ""
    IN  \/ r.handler = "CheckPermission" /\ (bad(r.params.resource) \/ bad(r.params.subject))
        \/ r.handler = "CheckPermissions"
            /\ (badType(r.params.resource_filter) \/ badType(r.params.subject_filter))
        \/ r.handler = "ListResourceRelations" /\ bad(r.params.resource)

\* C7: on every read endpoint a request whose resource or subject parameter
\* is not a valid object is answered 400 and invokes no store operation.
C7_ValidationBeforeStore ==
    InvalidObjectParam(resp) =>
        (resp.state = "written" /\ resp.status = 400 /\ resp.calls = << >>)

\* C8: the traversal request of a filtered check: forward from the resource
\* filter when it has an id (stopping on the subject filter, or on its type
\* when it has no id), else backward from the subject filter stopping on the
\* resource filter's type; rejected with no traversal when neither has an id.
C8_FilterRequest ==
    (resp.handler = "CheckPermissions" /\ ~InvalidObjectParam(resp)) =>
        LET rf == parseObjectParam(resp.params.resource_filter)[1]
            sf == parseObjectParam(resp.params.subject_filter)[1]
        IN  IF rf.ID = EmptyStr /\ sf.ID = EmptyStr
            THEN resp.status = 400 /\ resp.tRequest = << >> /\ resp.calls = << >>
            ELSE /\ resp.tRequest # << >>
                 /\ resp.calls = <<"ListPaths">>
                 /\ IF rf.ID # EmptyStr
                    THEN /\ resp.tRequest[1].StartOn = rf
                         /\ resp.tRequest[1].Forward
                         /\ IF sf.ID # EmptyStr
                            THEN /\ resp.tRequest[1].StopOn = <<sf>>
                                 /\ resp.tRequest[1].StopOnTypes.elems = << >>
                            ELSE /\ resp.tRequest[1].StopOn = NoObject
                                 /\ resp.tRequest[1].StopOnTypes.elems = <<sf.Type>>
                    ELSE /\ resp.tRequest[1].StartOn = sf
                         /\ ~resp.tRequest[1].Forward
                         /\ resp.tRequest[1].StopOn = NoObject
                         /\ resp.tRequest[1].StopOnTypes.elems = <<rf.Type>>

\* a backward filtered check found the document of the user
C8_Witness ==
    /\ resp.handler = "CheckPermissions"
    /\ resp.status = 200
    /\ ~resp.tRequest[1].Forward
    /\ Len(resp.body) = 1
    /\ resp.body[1].Resource = Object(document, d1)

PathsCalled == evalIn # << >> /\ evalOut # << >> /\ evalIn[1].fn = "ListPaths"

\* the paths of a response
ReturnedPaths(response) ==
    UNION {Range(response[i].Paths) : i \in 1..Len(response)}

\* the far end of the last edge of a row, as C9 selects it
WantedEnd(next, req) ==
    IF req.StopOn # NoObject THEN next = req.StopOn[1]
    ELSE IF Len(req.StopOnTypes.elems) > 0 THEN next.Type \in Range(req.StopOnTypes.elems)
    ELSE TRUE

\* C9: ListPaths returns exactly the enumerated paths whose far end equals
\* stop_on when stop_on is set (whatever stop_on_types is), else exactly those
\* whose far end has a type of stop_on_types when it is not empty, else all.
C9_ResultFilter ==
    (PathsCalled /\ ~evalOut[1].diverges) =>
        ReturnedPaths(evalOut[1].response)
            = {DecodePath(row.path) :
                row \in {x \in RelTree(store, evalIn[1].request) :
                            WantedEnd(x.next, evalIn[1].request)}}

\* C10: every path ListPaths returns is a walk in the store: its edges are
\* stored rows in their storage orientation, the first leaves start_on and
\* each later edge leaves the node the edge before it reached.
C10_PathsAreWalks ==
    (PathsCalled /\ ~evalOut[1].diverges) =>
        \A p \in ReturnedPaths(evalOut[1].response) :
            LET near(e) == IF evalIn[1].request.Forward THEN e.Resource ELSE e.Subject
                far(e) == IF evalIn[1].request.Forward THEN e.Subject ELSE e.Resource
            IN  /\ Len(p) > 0
                /\ \A k \in 1..Len(p) : p[k] \in store
                /\ near(p[1]) = evalIn[1].request.StartOn
                /\ \A k \in 2..Len(p) : near(p[k]) = far(p[k - 1])

\* a backward traversal returned a path of two edges
C10_Witness ==
    /\ PathsCalled
    /\ ~evalOut[1].diverges
    /\ ~evalIn[1].request.Forward
    /\ \E p \in ReturnedPaths(evalOut[1].response) : Len(p) = 2

\* the end of a response item the traversal started from, and the end it reached
ItemStart(item, req) == IF req.Forward THEN item.Resource ELSE item.Subject
ItemNext(item, req) == IF req.Forward THEN item.Subject ELSE item.Resource

\* C11: ListPaths returns at most one item per (start, next) pair; each item
\* has a non-empty path list that holds every returned path ending at its
\* next, and names start_on as resource (forward) or as subject (backward),
\* next being the other end.
C11_Grouping ==
    (PathsCalled /\ ~evalOut[1].diverges) =>
        LET req == evalIn[1].request
            response == evalOut[1].response
        IN  /\ \A i, j \in 1..Len(response) :
                (response[i].Resource = response[j].Resource
                    /\ response[i].Subject = response[j].Subject) => i = j
            /\ \A i \in 1..Len(response) :
                /\ Len(response[i].Paths) > 0
                /\ ItemStart(response[i], req) = req.StartOn
                /\ \A k \in 1..Len(response[i].Paths) :
                    LET p == response[i].Paths[k]
                    IN  Far(p[Len(p)], req.Forward) = ItemNext(response[i], req)
                /\ \A p \in ReturnedPaths(response) :
                    Far(p[Len(p)], req.Forward) = ItemNext(response[i], req)
                        => p \in Range(response[i].Paths)

\* a backward traversal returned two items, one of them with two paths
C11_Witness ==
    /\ PathsCalled
    /\ ~evalOut[1].diverges
    /\ ~evalIn[1].request.Forward
    /\ Len(evalOut[1].response) = 2
    /\ \E i \in 1..2 : Len(evalOut[1].response[i].Paths) = 2

WriteCalled(op) == evalIn # << >> /\ evalOut # << >> /\ evalIn[1].fn = op

\* C12: a DeleteBulk call whose statement runs returns no error, also when
\* a listed tuple is not stored, and leaves exactly the rows stored before it
\* that are not listed.
C12_DeleteExact ==
    (WriteCalled("DeleteBulk") /\ evalIn[1].fault = "none") =>
        /\ evalOut[1].err = ""
        /\ store = {r \in evalIn[1].before :
                        \A i \in 1..Len(evalIn[1].relationships) :
                            evalIn[1].relationships[i] # r}

\* a stored tuple and a tuple that is not stored were deleted; the tuple with
\* the same resource and subject and another relation is still stored
C12_Witness ==
    /\ WriteCalled("DeleteBulk")
    /\ evalIn[1].fault = "none"
    /\ evalIn[1].relationships
        = <<Relationship(Object(document, d1), "owner", Object(user, alice)),
            Relationship(Object(folder, f1), "member", Object(user, alice))>>
    /\ evalIn[1].before
        = {Relationship(Object(document, d1), "owner", Object(user, alice)),
           Relationship(Object(document, d1), "editor", Object(user, alice))}
    /\ store = {Relationship(Object(document, d1), "editor", Object(user, alice))}

\* r was inserted by the call before the last and deleted by the last call,
\* both without error
InsertedThenDeleted(r) ==
    /\ WriteCalled("DeleteBulk")
    /\ evalIn[1].relationships = <<r>>
    /\ evalOut[1].err = ""
    /\ evalIn[1].inserted # << >>
    /\ evalIn[1].inserted[1].relationship = r
    /\ IsValidRelation(Meta, r) = ""

\* C13 as stated: inserting a valid relationship and then deleting it leaves
\* the store as it was before the insert, whatever the store held.
C13_InsertDeleteRestores ==
    \A r \in StoreRows :
        InsertedThenDeleted(r) => store = evalIn[1].inserted[1].before

\* C13 amended: inserting a valid relationship that is not stored and then
\* deleting it leaves the store as it was before the insert.
C13_InsertDeleteRestoresAbsent ==
    \A r \in StoreRows :
        (InsertedThenDeleted(r) /\ r \notin evalIn[1].inserted[1].before)
            => store = evalIn[1].inserted[1].before

\* a relationship was inserted next to a stored row between the same resource
\* and subject, then deleted
C13_Witness ==
    LET r == Relationship(Object(document, d1), "owner", Object(user, alice))
    IN  /\ InsertedThenDeleted(r)
        /\ evalIn[1].inserted[1].before
            = {Relationship(Object(document, d1), "editor", Object(user, alice))}
        /\ store = evalIn[1].inserted[1].before

TxCalled == evalIn # << >> /\ evalOut # << >> /\ evalIn[1].fn = "WithTransaction"

\* how the user function of the call ends
FnOutcome(call) ==
    IF call.fault = "exec" /\ Len(call.relationships) > 0 THEN "error"
    ELSE IF call.fault = "panic" THEN "panic"
    ELSE "return"

\* the rows after the write of the call applied to rows
Written(call, rows) ==
    IF call.op = "InsertBulk" THEN rows \cup Range(call.relationships)
    ELSE {r \in rows : \A i \in 1..Len(call.relationships) : call.relationships[i] # r}

\* C14: WithTransaction without a transaction in the context, once its
\* transaction is open: it begins one transaction; a normal return of the
\* user function commits (and a commit that succeeds makes its writes the
\* store); an error rolls back and is returned; a panic rolls back and is
\* re-raised; after a rollback the store is what it was.
C14_TransactionOutcome ==
    (TxCalled /\ ~evalIn[1].nested /\ evalIn[1].ctxTx = NoTx /\ evalIn[1].fault # "begin") =>
        LET call == evalIn[1]
            out == evalOut[1]
            c == out.calls
        IN  /\ c[1] = "BeginTx"
            /\ Count(c, "BeginTx") = 1
            /\ FnOutcome(call) = "return" =>
                /\ Count(c, "Commit") = 1
                /\ ~out.panic
                /\ out.err = "" => (store = Written(call, call.before) /\ ~Contains(c, "Rollback"))
            /\ FnOutcome(call) = "error" =>
                /\ ~Contains(c, "Commit")
                /\ c[Len(c)] = "Rollback"
                /\ out.err = "exec failed"
                /\ ~out.panic
            /\ FnOutcome(call) = "panic" =>
                /\ ~Contains(c, "Commit")
                /\ c[Len(c)] = "Rollback"
                /\ out.panic
            /\ Contains(c, "Rollback") => store = call.before

\* the user function inserted a row that was not stored and panicked: the
\* row is not in the store
C14_Witness ==
    /\ TxCalled
    /\ ~evalIn[1].nested
    /\ evalIn[1].ctxTx = NoTx
    /\ evalIn[1].fault = "panic"
    /\ evalIn[1].op = "InsertBulk"
    /\ Len(evalIn[1].relationships) = 1
    /\ evalIn[1].relationships[1] \notin evalIn[1].before
    /\ evalOut[1].panic
    /\ evalOut[1].calls = <<"BeginTx", "InsertBulk", "Rollback">>
    /\ store = evalIn[1].before

\* the calls that begin or end a transaction
TxBoundaries == {"BeginTx", "Commit", "Rollback"}

\* C15: WithTransaction with a transaction in the context runs the user
\* function on that transaction, begins none and neither commits nor rolls
\* back; nested in the user function of a WithTransaction that opened the
\* transaction, it leaves the ending to that outer call, whose commit makes
\* the inner writes the store.
C15_Propagation ==
    /\ (TxCalled /\ ~evalIn[1].nested /\ evalIn[1].ctxTx # NoTx) =>
        LET call == evalIn[1]
            out == evalOut[1]
        IN  /\ \A i \in 1..Len(out.calls) : out.calls[i] \notin TxBoundaries
            /\ store = call.before
            /\ out.panic = (FnOutcome(call) = "panic")
            /\ (out.err # "") = (FnOutcome(call) = "error")
            /\ out.tx = IF FnOutcome(call) = "error" THEN call.ctxTx
                        ELSE <<Written(call, call.ctxTx[1])>>
    /\ (TxCalled /\ evalIn[1].nested /\ evalIn[1].outerFault # "begin") =>
        LET call == evalIn[1]
            out == evalOut[1]
            c == out.calls
            ops == IF Len(call.relationships) = 0 THEN << >> ELSE <<call.op>>
        IN  /\ \E ending \in {<<"Commit">>, <<"Rollback">>, <<"Commit", "Rollback">>} :
                c = <<"BeginTx">> \o ops \o ending
            /\ (FnOutcome(call) = "return" /\ call.outerFault = "none") =>
                (store = Written(call, call.before) /\ c[Len(c)] = "Commit")
            /\ FnOutcome(call) # "return" =>
                (store = call.before /\ c[Len(c)] = "Rollback" /\ ~Contains(c, "Commit"))

\* a nested call inserted a row that was not stored and the outer call
\* committed it
C15_Witness ==
    /\ TxCalled
    /\ evalIn[1].nested
    /\ evalIn[1].op = "InsertBulk"
    /\ evalOut[1].calls = <<"BeginTx", "InsertBulk", "Commit">>
    /\ store # evalIn[1].before

\* C16: no read request that is answered from the store sees it with the
\* deletions of the ManageRelationships request in flight applied and its
\* creations not applied: while that request is between its deletions and
\* its creations, such a read sees the store as it was before the request or
\* as it is with the creations applied.
C16_ReadIsolation ==
    [][(resp' # resp /\ resp'.status = 200 /\ pc = "create") =>
            (store = storeAtStart \/ Range(body.create) \subseteq store)]_vars

EffectiveCalled ==
    evalIn # << >> /\ evalOut # << >> /\ evalIn[1].fn = "ListEffectivePaths"

\* the best paths of a list under the rules: those no path of the list beats
BestPaths(paths, rules) ==
    {paths[i] : i \in {k \in 1..Len(paths) :
                        \A j \in 1..Len(paths) : compare(paths[j], paths[k], rules) >= 0}}

\* C17: every item ListEffectivePaths returns, forward or backward, holds the
\* paths of the traversed item that are best under the precedence rules of
\* the type of the item's resource.
C17_ResourceTypeRules ==
    (EffectiveCalled /\ ~evalOut[1].diverges) =>
        \A i \in 1..Len(evalOut[1].response) :
            LET item == evalOut[1].response[i]
                rules == ObjectDef(Meta, item.Resource.Type).PrecedenceRules
            IN  Range(item.Paths) = BestPaths(evalOut[1].traversed[i].Paths, rules)

\* the list with x inserted at position k
InsertAt(s, k, x) == SubSeq(s, 1, k - 1) \o <<x>> \o SubSeq(s, k, Len(s))

\* C18: when evaluatePermission allows a permission without except on a path
\* list, it allows it on every list obtained by adding one path anywhere.
C18_Monotone ==
    (EvalCalled /\ evalIn[1].permission.Except = << >> /\ evalOut[1].Allowed) =>
        \A p \in EvalPaths : \A k \in 1..(Len(evalIn[1].paths) + 1) :
            evaluatePermission(evalIn[1].permission, InsertAt(evalIn[1].paths, k, p),
                               evalIn[1].showMatchingPaths).Allowed

\* allowed without except through the last of two paths only
C18_Witness ==
    /\ EvalCalled
    /\ evalIn[1].permission.Except = << >>
    /\ Len(evalIn[1].paths) = 2
    /\ ~SomePathHas(<<evalIn[1].paths[1]>>, evalIn[1].permission.AnyOf)
    /\ evalOut[1].Allowed

ReducedTwice ==
    evalIn # << >> /\ evalIn[1].fn = "effectivePaths" /\ Len(evalOut) = 2

\* C19: effectivePaths applied to its own result, with the same rules,
\* returns that result.
C19_ReduceIdempotent ==
    ReducedTwice => evalOut[2] = evalOut[1]

\* a reduction that dropped one of two paths was reduced again
C19_Witness ==
    /\ ReducedTwice
    /\ Len(evalIn[1].paths) = 2
    /\ Len(evalOut[1]) = 1
    /\ Len(evalIn[1].rules) = 2

\* the type of the node is not in stop_on_types
NotStopped(n, req) ==
    req.StopOnTypes.isNil \/ n.Type \notin Range(req.StopOnTypes.elems)

\* the edges of the graph the request walks when no node of a type of
\* stop_on_types is expanded: a stored row leads from its near end to its
\* far end
WalkEdges(db, req) ==
    {<<Near(r, req.Forward), Far(r, req.Forward)>> :
        r \in {x \in db : NotStopped(Near(x, req.Forward), req)}}

\* the same, start_on being expanded whatever its type
SeededWalkEdges(db, req) ==
    {<<Near(r, req.Forward), Far(r, req.Forward)>> :
        r \in {x \in db : \/ Near(x, req.Forward) = req.StartOn
                          \/ NotStopped(Near(x, req.Forward), req)}}

\* the nodes reached from the nodes of S by at least one edge
RECURSIVE ReachedFrom(_, _, _)
ReachedFrom(edges, S, seen) ==
    LET next == {e[2] : e \in {x \in edges : x[1] \in S}} \ seen
    IN  IF next = {} THEN seen ELSE ReachedFrom(edges, next, seen \cup next)

\* the subgraph reachable from start holds a cycle
ReachableCycle(edges, start) ==
    \E n \in {start} \cup ReachedFrom(edges, {start}, {}) :
        n \in ReachedFrom(edges, {n}, {})

\* C20 as stated: ListPaths ends on every store whose subgraph reachable from
\* start_on in the direction of the request, no node of a type of
\* stop_on_types being expanded, holds no cycle.
C20_TerminatesWithoutCycle ==
    (PathsCalled /\ ~ReachableCycle(WalkEdges(store, evalIn[1].request),
                                    evalIn[1].request.StartOn))
        => ~evalOut[1].diverges

\* C20 amended: ListPaths ends on every store whose subgraph reachable from
\* start_on in the direction of the request, start_on being expanded and no
\* other node of a type of stop_on_types, holds no cycle.
C20_TerminatesWithoutSeededCycle ==
    (PathsCalled /\ ~ReachableCycle(SeededWalkEdges(store, evalIn[1].request),
                                    evalIn[1].request.StartOn))
        => ~evalOut[1].diverges

\* a traversal that stops on folders returned a path to a folder that is its
\* own parent
C20_Witness ==
    /\ PathsCalled
    /\ Relationship(Object(folder, f1), "parent", Object(folder, f1)) \in store
    /\ evalIn[1].request.StartOn = Object(document, d1)
    /\ evalIn[1].request.Forward
    /\ ~ReachableCycle(SeededWalkEdges(store, evalIn[1].request), evalIn[1].request.StartOn)
    /\ ~evalOut[1].diverges
    /\ evalOut[1].response # << >>

EffectiveReduced ==
    evalIn # << >> /\ evalIn[1].fn = "effectivePaths" /\ Len(evalOut) >= 1

\* C21: effectivePaths returns, in input order, exactly the paths of its list
\* that no path of the list beats under compare; the paths it returns tie
\* with each other, and it returns none only for an empty list.
C21_EquallyBest ==
    EffectiveReduced =>
        LET P == evalIn[1].paths
            R == evalIn[1].rules
            unbeaten(p) == \A i \in 1..Len(P) : compare(P[i], p, R) >= 0
        IN  /\ evalOut[1] = SelectSeq(P, unbeaten)
            /\ \A i, j \in 1..Len(evalOut[1]) : compare(evalOut[1][i], evalOut[1][j], R) = 0
            /\ evalOut[1] = << >> => P = << >>

\* the second path tied with the first and the third beat both: the third
\* alone was returned
C21_Witness ==
    /\ EffectiveReduced
    /\ Len(evalIn[1].paths) = 3
    /\ compare(evalIn[1].paths[2], evalIn[1].paths[1], evalIn[1].rules) = 0
    /\ evalIn[1].paths[2] # evalIn[1].paths[1]
    /\ compare(evalIn[1].paths[3], evalIn[1].paths[1], evalIn[1].rules) < 0
    /\ evalOut[1] = <<evalIn[1].paths[3]>>

CompareCalled == evalIn # << >> /\ evalOut # << >> /\ evalIn[1].fn = "compare"

\* how often the relation labels an edge of the path
Occurrences(path, relation) ==
    Cardinality({k \in 1..Len(path) : path[k].Relation = relation})

\* the rule favours path a over path b
Favours(rule, a, b) ==
    \/ /\ rule.Rule = "path_with"
       /\ Occurrences(a, rule.Relation) > 0
       /\ Occurrences(b, rule.Relation) = 0
    \/ /\ rule.Rule = "path_without"
       /\ Occurrences(a, rule.Relation) = 0
       /\ Occurrences(b, rule.Relation) > 0
    \/ /\ rule.Rule = "path_with_fewer"
       /\ Occurrences(a, rule.Relation) < Occurrences(b, rule.Relation)

Discriminates(rule, a, b) == Favours(rule, a, b) \/ Favours(rule, b, a)

\* C22: compare(a, b, rules) is decided by the first rule, in declared
\* order, that discriminates a from b (path_with r favours the path that
\* contains r, path_without r the path that does not, path_with_fewer r the
\* path with the smaller count of r): negative when that rule favours a,
\* positive when it favours b, and zero exactly when no rule discriminates.
C22_FirstDiscriminatingRule ==
    CompareCalled =>
        LET a == evalIn[1].a
            b == evalIn[1].b
            R == evalIn[1].rules
            deciding == {i \in 1..Len(R) : Discriminates(R[i], a, b)}
        IN  IF deciding = {}
            THEN evalOut[1] = 0
            ELSE LET first == CHOOSE i \in deciding : \A j \in deciding : i <= j
                 IN  /\ evalOut[1] # 0
                     /\ (evalOut[1] < 0) <=> Favours(R[first], a, b)
                     /\ (evalOut[1] > 0) <=> Favours(R[first], b, a)

\* the first rule tied, the second was a path_with_fewer of a relation that
\* both paths contain and decided for the path that holds it once
C22_Witness ==
    /\ CompareCalled
    /\ Len(evalIn[1].rules) = 2
    /\ ~Discriminates(evalIn[1].rules[1], evalIn[1].a, evalIn[1].b)
    /\ evalIn[1].rules[1].Rule # "path_first"
    /\ evalIn[1].rules[2].Rule = "path_with_fewer"
    /\ Occurrences(evalIn[1].a, evalIn[1].rules[2].Relation) = 2
    /\ Occurrences(evalIn[1].b, evalIn[1].rules[2].Relation) = 1
    /\ evalOut[1] > 0

Sign(x) == IF x < 0 THEN -1 ELSE IF x > 0 THEN 1 ELSE 0

\* C23: under every rule list compare is a total preorder on paths: the
\* sign of compare(a, b) is the opposite of the sign of compare(b, a); a no
\* worse than b and b no worse than c make a no worse than c; and when a ties
\* with b, every path p compares with a as it compares with b.
C23_TotalPreorder ==
    CompareCalled =>
        LET a == evalIn[1].a
            b == evalIn[1].b
            R == evalIn[1].rules
        IN  /\ Sign(evalOut[1]) = -Sign(compare(b, a, R))
            /\ \A c \in ComparePaths :
                (evalOut[1] <= 0 /\ compare(b, c, R) <= 0) => compare(a, c, R) <= 0
            /\ evalOut[1] = 0 =>
                \A p \in ComparePaths : Sign(compare(p, a, R)) = Sign(compare(p, b, R))

\* two different paths tied under two rules of which the first decides between
\* one of them and a third path
C23_Witness ==
    /\ CompareCalled
    /\ Len(evalIn[1].rules) = 2
    /\ evalIn[1].a # evalIn[1].b
    /\ evalOut[1] = 0
    /\ \E p \in ComparePaths : Discriminates(evalIn[1].rules[1], p, evalIn[1].a)
    /\ \E p \in ComparePaths :
        /\ ~Discriminates(evalIn[1].rules[1], p, evalIn[1].a)
        /\ Discriminates(evalIn[1].rules[2], p, evalIn[1].a)

\* the sequence of stored rows is a walk that leaves start_on in the direction
\* of the request
IsWalk(w, db, req) ==
    /\ Len(w) > 0
    /\ \A k \in 1..Len(w) : w[k] \in db
    /\ Near(w[1], req.Forward) = req.StartOn
    /\ \A k \in 2..Len(w) : Near(w[k], req.Forward) = Far(w[k - 1], req.Forward)

\* no edge of the path but the last reaches a node of a type of stop_on_types
CutAtStopTypes(p, req) ==
    \A k \in 1..(Len(p) - 1) :
        Far(p[k], req.Forward).Type \notin Range(req.StopOnTypes.elems)

\* C24: with a non-empty stop_on_types, no edge of a returned path but its
\* last reaches a node whose type is in stop_on_types, and every walk from
\* start_on that is cut so and ends at a node of such a type (at stop_on when
\* it is set) is returned.
C24_StopTypesCut ==
    (PathsCalled /\ ~evalOut[1].diverges /\ Len(evalIn[1].request.StopOnTypes.elems) > 0) =>
        LET req == evalIn[1].request
            returned == ReturnedPaths(evalOut[1].response)
        IN  /\ \A p \in returned : CutAtStopTypes(p, req)
            /\ \A w \in SeqsUpTo(store, Cardinality(Nodes(store))) :
                (/\ IsWalk(w, store, req)
                 /\ CutAtStopTypes(w, req)
                 /\ Far(w[Len(w)], req.Forward).Type \in Range(req.StopOnTypes.elems)
                 /\ (req.StopOn = NoObject \/ Far(w[Len(w)], req.Forward) = req.StopOn[1]))
                    => w \in returned

\* a backward traversal from the user that stops on folders returned the path
\* to the folder and no path through it to the document
C24_Witness ==
    /\ PathsCalled
    /\ ~evalOut[1].diverges
    /\ evalIn[1].request = TraversalRequest(Object(user, alice), FALSE, Slice(<<folder>>), NoObject)
    /\ Relationship(Object(document, d1), "parent", Object(folder, f1)) \in store
    /\ ReturnedPaths(evalOut[1].response)
        = {<<Relationship(Object(folder, f1), "member", Object(user, alice))>>}

\* the last ManageRelationships request was answered 200
ManageSucceeded == pc = "idle" /\ mresp = ManageResponse("written", 200)

\* C25: after a ManageRelationships request that succeeds, every valid
\* relationship its body lists both to delete and to create is stored,
\* whether it was stored before the request or not: the deletions run before
\* the creations.
C25_DeleteBeforeCreate ==
    ManageSucceeded => mreq.both \subseteq store

\* a stored relationship was listed to delete and to create, both store
\* operations ran, and it is stored
C25_Witness ==
    /\ ManageSucceeded
    /\ mreq.both # {}
    /\ mreq.both \subseteq storeAtStart
    /\ Contains(calls, "DeleteBulk")
    /\ Contains(calls, "InsertBulk")
    /\ mreq.both \subseteq store

\* the invariants of a Relationship: its components are not empty, the type
\* of its resource is declared, its relation is declared on that type, and
\* the type of its subject is among the subject types of the relation
WellFormed(r) ==
    /\ r.Resource.Type # EmptyStr /\ r.Resource.ID # EmptyStr
    /\ r.Subject.Type # EmptyStr /\ r.Subject.ID # EmptyStr
    /\ r.Relation # ""
    /\ r.Resource.Type \in DOMAIN Meta.Objects
    /\ r.Relation \in DOMAIN Meta.Objects[r.Resource.Type].Relations
    /\ r.Subject.Type \in Range(Meta.Objects[r.Resource.Type].Relations[r.Relation].SubjectTypes)

\* C26: from an empty store, after any sequence of ManageRelationships
\* requests, answered 200, 400 or 500, every stored relationship satisfies the
\* invariants of a Relationship.
C26_StoreValid ==
    \A r \in store : WellFormed(r)

\* the store holds three relationships and the last request, whose body held
\* a relationship with a subject type its relation does not allow, was
\* rejected
C26_Witness ==
    /\ Cardinality(store) = 3
    /\ mreq.invalid > 0
    /\ mreq.entries > mreq.invalid
    /\ mresp = ManageResponse("written", 400)
    /\ store = storeAtStart

\* the items of a response that report the pair
ItemsOf(response, resource, subject) ==
    {response[i] : i \in {k \in 1..Len(response) :
                            response[k].Resource = resource /\ response[k].Subject = subject}}

\* the calls i and j are checks of the same pair on the same store, and both
\* returned
ChecksOfOnePair(i, j) ==
    /\ i \in 1..Len(evalIn) /\ j \in 1..Len(evalIn)
    /\ \A k \in 1..Len(evalIn) : evalIn[k].fn = "CheckPermissions"
    /\ ~evalOut[i].diverges /\ ~evalOut[j].diverges

\* C27: on a store on which the traversals end, the allowed value of every
\* permission reported for a pair (resource, subject) is the same in the
\* forward check with stop_on, the forward filtered check and the backward
\* filtered check.
C27_DirectionIndependent ==
    \A i, j \in 1..3 :
        ChecksOfOnePair(i, j) =>
            \A x \in ItemsOf(evalOut[i].response, evalIn[1].resource, evalIn[1].subject) :
                \A y \in ItemsOf(evalOut[j].response, evalIn[1].resource, evalIn[1].subject) :
                    \A name \in DOMAIN x.PermissionEvals :
                        x.PermissionEvals[name].Allowed = y.PermissionEvals[name].Allowed

\* a check, the creation of a relationship, and the same check again
CheckedAroundInsert ==
    /\ Len(evalIn) = 3
    /\ evalIn[2].fn = "CreateRelationships"
    /\ ~evalOut[1].diverges

\* the permissions without except that the first check allowed for the pair
AllowedWithoutExcept ==
    {name \in DOMAIN ObjectDef(Schema(evalIn[1].schema), evalIn[1].resource.Type).Permissions :
        /\ ObjectDef(Schema(evalIn[1].schema), evalIn[1].resource.Type).Permissions[name].Except
            = << >>
        /\ \E x \in ItemsOf(evalOut[1].response, evalIn[1].resource, evalIn[1].subject) :
            x.PermissionEvals[name].Allowed}

\* the last check returned and allowed the permission for the pair
StillAllowed(name) ==
    /\ ~evalOut[3].diverges
    /\ \E y \in ItemsOf(evalOut[3].response, evalIn[1].resource, evalIn[1].subject) :
        y.PermissionEvals[name].Allowed

\* C28 as stated: a permission without except that a check of a pair allows
\* is still allowed by the same check after any further valid relationship
\* is created.
C28_EndToEndMonotone ==
    CheckedAroundInsert => \A name \in AllowedWithoutExcept : StillAllowed(name)

\* the type the request starts on declares no precedence rules
StartsOnTypeWithoutRules ==
    ObjectDef(Schema(evalIn[1].schema),
              FormRequest(evalIn[1].resource, evalIn[1].subject, evalIn[1].form).StartOn.Type)
        .PrecedenceRules = << >>

\* C28 amended: when the type the request starts on declares no precedence
\* rules, a permission without except that a check of a pair allows is still
\* allowed by the same check after any further valid relationship is created,
\* provided the traversal of that check ends.
C28_MonotoneWithoutRules ==
    (CheckedAroundInsert /\ StartsOnTypeWithoutRules /\ ~evalOut[3].diverges) =>
        \A name \in AllowedWithoutExcept : StillAllowed(name)

\* a backward check allowed edit through the owner path; the parent of the
\* document, of which the user is a member, was created; the check still
\* allows edit
C28_Witness ==
    /\ CheckedAroundInsert
    /\ StartsOnTypeWithoutRules
    /\ evalIn[1].schema = "parent_first"
    /\ evalIn[1].form = "backward"
    /\ evalIn[2].relationships
        = <<Relationship(Object(document, d1), "parent", Object(folder, f1))>>
    /\ evalIn[2].relationships[1] \notin storeAtStart
    /\ Relationship(Object(folder, f1), "member", Object(user, alice)) \in store
    /\ "edit" \in AllowedWithoutExcept
    /\ StillAllowed("edit")

\* C29: evaluatePermission returns the same allowed value with and without
\* show_matching_paths; with show_matching_paths, matching_paths is not empty
\* exactly when allowed is true, and every path it records is a path of the
\* list given and contains a relation of any_of.
C29_ShowIndependent ==
    EvalCalled =>
        LET permission == evalIn[1].permission
            paths == evalIn[1].paths
            other == evaluatePermission(permission, paths, ~evalIn[1].showMatchingPaths)
        IN  /\ evalOut[1].Allowed = other.Allowed
            /\ evalIn[1].showMatchingPaths =>
                /\ (evalOut[1].MatchingPaths # << >>) <=> evalOut[1].Allowed
                /\ \A k \in 1..Len(evalOut[1].MatchingPaths) :
                    /\ evalOut[1].MatchingPaths[k] \in Range(paths)
                    /\ SomePathHas(<<evalOut[1].MatchingPaths[k]>>, permission.AnyOf)

\* with show_matching_paths, the second of two paths matched the second
\* relation of any_of and was recorded alone
C29_Witness ==
    /\ EvalCalled
    /\ evalIn[1].showMatchingPaths
    /\ Len(evalIn[1].paths) = 2
    /\ Len(evalIn[1].permission.AnyOf) = 2
    /\ ~SomePathHas(evalIn[1].paths, <<evalIn[1].permission.AnyOf[1]>>)
    /\ evalOut[1] = PermissionEval(TRUE, <<evalIn[1].paths[2]>>)

====
